---- MODULE Spec2Model ----
(***************************************************************************)
(* Model of the vehicle-filter validation core of api_maqueta              *)
(* (filters/vehicle_filters.py).                                           *)
(*                                                                         *)
(* A Python str is a sequence of Unicode code points.  A Python value      *)
(* handed to the core is a record [py |-> <type name>, v |-> <payload>]:   *)
(* for py = "str" the payload is the sequence of code points, for the      *)
(* other types it is a sequence that is empty exactly when the value is    *)
(* falsy.  Optional[...] is a sequence of length 0 (None) or 1.            *)
(***************************************************************************)
EXTENDS Integers, Sequences, FiniteSets, TLC

VARIABLES
  pc,           \* "idle", or "returned" when a call of the core has returned
  op,           \* the operation that has returned
  filter_type,  \* its filter_type argument, or its first argument when
                \* that is no dict and value holds the second one
  value,        \* its value, vehicle_type or non-mapping argument
  filters,      \* its dict argument, as the sequence of its items
  result,       \* what it returned
  held,         \* the mapping a caller got from get_available_filters and kept
  mutations,    \* how many times the caller has changed that mapping
  calls,        \* the validation calls in progress, one per thread
  handler,      \* where the handler of the vehicle-filter request stands
  request,      \* the request it serves: endpoint, filtros, skip
  validated,    \* what the validation of the request returned
  log,          \* the calls the handler has made, oldest first
  response,     \* the outcome of the request
  productos,    \* the rows of the table productos, in the order of their ids
  service_pc,   \* "idle", or "returned" when a call of ProductService has returned
  service_call, \* that call: the method and its arguments
  service_out,  \* how it ended: the exception raised or the value returned
  http_request, \* the request a product endpoint is answering
  http_status,  \* the status code of its response
  requests_per_minute, \* RateLimitMiddleware.requests_per_minute
  request_counts,      \* RateLimitMiddleware.request_counts
  clock,        \* what time.time() returns
  dispatched,   \* the last request RateLimitMiddleware has handled
  forwarded     \* per client, the requests call_next got under its present record

\* the state of the calls of the validation core
core_vars == <<pc, op, filter_type, value, filters, result, held, mutations, calls>>

\* the state of the handler of a vehicle-filter request
request_vars == <<handler, request, validated, log, response>>

\* the table and the last call of ProductService
product_vars == <<productos, service_pc, service_call, service_out>>

\* the state of the product endpoint that is answering
access_vars == <<http_request, http_status>>

\* the state of RateLimitMiddleware and of its clock
limiter_vars == <<requests_per_minute, request_counts, clock, dispatched, forwarded>>

\* the state outside the validation core
layer_vars == <<request_vars, product_vars, access_vars, limiter_vars>>

vars == <<core_vars, layer_vars>>

-----------------------------------------------------------------------------
(* Bounds of the explored inputs *)

\* longest raw string built freely from RawAlphabet
MaxLen == 3

\* most entries of a raw mapping built freely from RawKeys x RawValues
MaxPairs == 2

\* most changes a caller makes to a mapping it got from get_available_filters
MaxMutations == 2

\* largest requests_per_minute a RateLimitMiddleware is constructed with
MaxRequestsPerMinute == 2

\* most requests one record of request_counts counts
MaxCount == 4

\* latest reading of the clock, in seconds after the first one
MaxTime == 140

\* threads that call the validators at the same time
MaxThreads == 2

\* most rows of the table productos
MaxProducts == 2

-----------------------------------------------------------------------------
(* String literals *)

Letters == << "a", "b", "c", "d", "e", "f", "g", "h", "i", "j", "k", "l", "m",
              "n", "o", "p", "q", "r", "s", "t", "u", "v", "w", "x", "y", "z" >>

\* code point of a character of a literal of the source (a-z, '-' and '_')
Ord(c) == IF c = "-" THEN 45
          ELSE IF c = "_" THEN 95
          ELSE 96 + CHOOSE i \in 1..26 : Letters[i] = c

\* the str whose characters are listed in t
Lit(t) == [i \in 1..Len(t) |-> Ord(t[i])]

\* string literals: "auto" is s_auto, "semi-sintetico" is s_semi_sintetico
s_aceite == Lit(<<"a","c","e","i","t","e">>)
s_agricola == Lit(<<"a","g","r","i","c","o","l","a">>)
s_agua == Lit(<<"a","g","u","a">>)
s_aire == Lit(<<"a","i","r","e">>)
s_auto == Lit(<<"a","u","t","o">>)
s_biocombustible == Lit(<<"b","i","o","c","o","m","b","u","s","t","i","b","l","e">>)
s_bus == Lit(<<"b","u","s">>)
s_camion == Lit(<<"c","a","m","i","o","n">>)
s_combustible == Lit(<<"c","o","m","b","u","s","t","i","b","l","e">>)
s_diesel == Lit(<<"d","i","e","s","e","l">>)
s_electrico == Lit(<<"e","l","e","c","t","r","i","c","o">>)
s_gas == Lit(<<"g","a","s">>)
s_gasolina == Lit(<<"g","a","s","o","l","i","n","a">>)
s_habitaculo == Lit(<<"h","a","b","i","t","a","c","u","l","o">>)
s_hibrido == Lit(<<"h","i","b","r","i","d","o">>)
s_hidraulico == Lit(<<"h","i","d","r","a","u","l","i","c","o">>)
s_maquinaria == Lit(<<"m","a","q","u","i","n","a","r","i","a">>)
s_mineral == Lit(<<"m","i","n","e","r","a","l">>)
s_moto == Lit(<<"m","o","t","o">>)
s_polen == Lit(<<"p","o","l","e","n">>)
s_semi_sintetico == Lit(<<"s","e","m","i","-","s","i","n","t","e","t","i","c","o">>)
s_sintetico == Lit(<<"s","i","n","t","e","t","i","c","o">>)
s_tipo == Lit(<<"t","i","p","o">>)
s_tipo_aceite == Lit(<<"t","i","p","o","_","a","c","e","i","t","e">>)
s_tipo_combustible == Lit(<<"t","i","p","o","_","c","o","m","b","u","s","t","i","b","l","e">>)
s_tipo_filtro == Lit(<<"t","i","p","o","_","f","i","l","t","r","o">>)
s_tipo_vehiculo == Lit(<<"t","i","p","o","_","v","e","h","i","c","u","l","o">>)
s_transmision == Lit(<<"t","r","a","n","s","m","i","s","i","o","n">>)
s_x == Lit(<<"x">>)

None == << >>
Some(x) == << x >>

Str(s) == [py |-> "str", v |-> s]

\* not value
Falsy(x) == x.v = << >>

-----------------------------------------------------------------------------
(* The vocabulary: the four enumerations, in declaration order *)

TipoVehiculo ==
  << s_auto,
     s_moto,
     s_camion,
     s_bus,
     s_maquinaria,
     s_agricola >>

TipoAceite ==
  << s_sintetico,
     s_mineral,
     s_semi_sintetico,
     s_transmision,
     s_hidraulico >>

TipoCombustible ==
  << s_gasolina,
     s_diesel,
     s_electrico,
     s_hibrido,
     s_gas,
     s_biocombustible >>

TipoFiltro ==
  << s_aire,
     s_aceite,
     s_combustible,
     s_polen,
     s_habitaculo,
     s_hidraulico,
     s_transmision,
     s_agua >>

\* filter_map: dimension key -> enumeration
filter_map ==
  [k \in {s_tipo_vehiculo, s_tipo_aceite, s_tipo_combustible, s_tipo_filtro} |->
     IF k = s_tipo_vehiculo THEN TipoVehiculo
     ELSE IF k = s_tipo_aceite THEN TipoAceite
     ELSE IF k = s_tipo_combustible THEN TipoCombustible
     ELSE TipoFiltro]

\* [item.value for item in enum_class], as the set 'in' tests membership of
valid_values(enum_class) == { enum_class[i] : i \in 1..Len(enum_class) }

-----------------------------------------------------------------------------
(* _sanitize_input *)

\* the characters str.strip() removes (str.isspace)
Whitespace ==
  (9..13) \cup (28..32) \cup {133, 160, 5760} \cup (8192..8202)
    \cup {8232, 8233, 8239, 8287, 12288}

RECURSIVE lstrip(_)
lstrip(s) ==
  IF s # << >> /\ Head(s) \in Whitespace THEN lstrip(Tail(s)) ELSE s

RECURSIVE rstrip(_)
rstrip(s) ==
  IF s # << >> /\ s[Len(s)] \in Whitespace
  THEN rstrip(SubSeq(s, 1, Len(s) - 1))
  ELSE s

\* str.strip()
strip(s) == rstrip(lstrip(s))

\* the lower-case mapping of one code point, as a str: ASCII and Latin-1
\* capitals, KELVIN SIGN (U+212A -> "k") and LATIN CAPITAL LETTER I WITH DOT
\* ABOVE (U+0130 -> "i" + U+0307); every other code point the model draws
\* has no lower-case mapping
lower_char(c) ==
  IF c \in 65..90 THEN << c + 32 >>
  ELSE IF c \in (192..222) \ {215} THEN << c + 32 >>
  ELSE IF c = 8490 THEN << 107 >>
  ELSE IF c = 304 THEN << 105, 775 >>
  ELSE << c >>

\* str.lower()
RECURSIVE lower(_)
lower(s) ==
  IF s = << >> THEN << >> ELSE lower_char(Head(s)) \o lower(Tail(s))

\* [\x00-\x1F\x7F]
ControlChars == (0..31) \cup {127}

\* ['"\\;<>]
DangerousChars == {39, 34, 92, 59, 60, 62}

\* [a-z0-9\-_]
AllowedChars == (97..122) \cup (48..57) \cup {45, 95}

\* re.sub('[' + class + ']', '', s)
re_sub(class, s) == LET keep(c) == c \notin class IN SelectSeq(s, keep)

\* [class]+ matches the whole of s
all_in(class, s) == s # << >> /\ \A i \in 1..Len(s) : s[i] \in class

\* mutant: the class of the pattern written without the hyphen, [a-z0-9_]
re_match_allowed_no_hyphen(s) ==
  \/ all_in(AllowedChars \ {45}, s)
  \/ /\ s # << >>
     /\ s[Len(s)] = 10
     /\ all_in(AllowedChars \ {45}, SubSeq(s, 1, Len(s) - 1))

\* re.match(r'^[a-z0-9\-_]+$', s): without re.MULTILINE '$' matches at the
\* end of the string and also just before a newline that ends the string
re_match_allowed(s) ==
  \/ all_in(AllowedChars, s)
  \/ /\ s # << >>
     /\ s[Len(s)] = 10
     /\ all_in(AllowedChars, SubSeq(s, 1, Len(s) - 1))

\* mutant: the final validation against the allowed characters left out
_sanitize_input_unvalidated(x) ==
  IF Falsy(x) \/ x.py # "str" THEN << >>
  ELSE LET v1 == lower(strip(x.v))
           v2 == re_sub(ControlChars, v1)
       IN re_sub(DangerousChars, v2)

\* mutant: the control characters are not removed
_sanitize_input_keeps_control(x) ==
  IF Falsy(x) \/ x.py # "str" THEN << >>
  ELSE LET v1 == lower(strip(x.v))
           v3 == re_sub(DangerousChars, v1)
       IN IF ~re_match_allowed(v3) THEN << >> ELSE v3

\* mutant: strip() applied after the removals instead of before them
_sanitize_input_strips_last(x) ==
  IF Falsy(x) \/ x.py # "str" THEN << >>
  ELSE LET v1 == lower(x.v)
           v2 == re_sub(ControlChars, v1)
           v3 == strip(re_sub(DangerousChars, v2))
       IN IF ~re_match_allowed(v3) THEN << >> ELSE v3

_sanitize_input(x) ==
  IF Falsy(x) \/ x.py # "str" THEN << >>
  ELSE LET v1 == lower(strip(x.v))
           v2 == re_sub(ControlChars, v1)
           v3 == re_sub(DangerousChars, v2)
       IN IF ~re_match_allowed(v3) THEN << >> ELSE v3

-----------------------------------------------------------------------------
(* Results and messages *)

\* a message: the text of the f-string and the values interpolated into it
Msg(prefix, text, ft, val) ==
  [prefix |-> prefix, text |-> text, filter_type |-> ft, value |-> val]

\* "Tipo de filtro o valor vacio"
MsgEmpty == Msg("", "Tipo de filtro o valor vacio", << >>, << >>)

\* f"Tipo de filtro no valido: {filter_type}"
MsgUnknownType(ft) == Msg("", "Tipo de filtro no valido: {filter_type}", ft, << >>)

\* f"Valor '{value}' no valido para {filter_type}"
MsgBadValue(ft, val) ==
  Msg("", "Valor '{value}' no valido para {filter_type}", ft, val)

\* f"Filtro invalido: {error_msg}"
MsgInvalidInCombo(error_msg) ==
  [error_msg EXCEPT !.prefix = "Filtro invalido: "]

\* "Combinacion de filtros incompatible"
MsgIncompatible == Msg("", "Combinacion de filtros incompatible", << >>, << >>)

\* "Error interno en validacion de filtro"
MsgInternalValue == Msg("", "Error interno en validacion de filtro", << >>, << >>)

\* "Error interno en validacion de filtros"
MsgInternalCombo == Msg("", "Error interno en validacion de filtros", << >>, << >>)

-----------------------------------------------------------------------------
(* validate_filter_value: returns (es_valido, mensaje_error) *)

\* mutant: the value is looked up in the tokens of all four enumerations
validate_filter_value_any_enum(ft_raw, value_raw) ==
  LET ft == _sanitize_input(ft_raw)
      val == _sanitize_input(value_raw)
  IN IF ft = << >> \/ val = << >>
       THEN [ok |-> FALSE, error |-> Some(MsgEmpty)]
     ELSE IF ft \notin DOMAIN filter_map
       THEN [ok |-> FALSE, error |-> Some(MsgUnknownType(ft))]
     ELSE IF val \notin UNION { valid_values(filter_map[k]) : k \in DOMAIN filter_map }
       THEN [ok |-> FALSE, error |-> Some(MsgBadValue(ft, val))]
     ELSE [ok |-> TRUE, error |-> None]

\* mutant: the dimension is looked up before the empty test
validate_filter_value_type_first(ft_raw, value_raw) ==
  LET ft == _sanitize_input(ft_raw)
      val == _sanitize_input(value_raw)
  IN IF ft \notin DOMAIN filter_map
       THEN [ok |-> FALSE, error |-> Some(MsgUnknownType(ft))]
     ELSE IF ft = << >> \/ val = << >>
       THEN [ok |-> FALSE, error |-> Some(MsgEmpty)]
     ELSE IF val \notin valid_values(filter_map[ft])
       THEN [ok |-> FALSE, error |-> Some(MsgBadValue(ft, val))]
     ELSE [ok |-> TRUE, error |-> None]

validate_filter_value(ft_raw, value_raw) ==
  LET ft == _sanitize_input(ft_raw)
      val == _sanitize_input(value_raw)
  IN IF ft = << >> \/ val = << >>
       THEN [ok |-> FALSE, error |-> Some(MsgEmpty)]
     ELSE IF ft \notin DOMAIN filter_map
       THEN [ok |-> FALSE, error |-> Some(MsgUnknownType(ft))]
     ELSE IF val \notin valid_values(filter_map[ft])
       THEN [ok |-> FALSE, error |-> Some(MsgBadValue(ft, val))]
     ELSE [ok |-> TRUE, error |-> None]

-----------------------------------------------------------------------------
(* _check_compatibility *)

\* f.get(k): Some(f[k]) or None
Get(f, k) == IF k \in DOMAIN f THEN Some(f[k]) ELSE None

\* sanitized_filters[k] = v
DictSet(f, k, v) == [x \in DOMAIN f \cup {k} |-> IF x = k THEN v ELSE f[x]]

\* mutant: the vehicle list of the rule without "bus"
rule_1_camion_only(f) ==
  /\ Get(f, s_tipo_aceite) = Some(s_sintetico)
  /\ Get(f, s_tipo_combustible) = Some(s_diesel)
  /\ Get(f, s_tipo_vehiculo) \in { Some(s_camion) }

\* synthetic oil, diesel, truck or bus
rule_1(f) ==
  /\ Get(f, s_tipo_aceite)
       = Some(s_sintetico)
  /\ Get(f, s_tipo_combustible)
       = Some(s_diesel)
  /\ Get(f, s_tipo_vehiculo)
       \in { Some(s_camion), Some(s_bus) }

\* mutant: the vehicle list of the rule without None
rule_2_without_none(f) ==
  /\ Get(f, s_tipo_filtro) = Some(s_habitaculo)
  /\ Get(f, s_tipo_vehiculo) \notin { Some(s_auto), Some(s_bus) }

\* cabin filter, vehicle neither car nor bus nor absent
rule_2(f) ==
  /\ Get(f, s_tipo_filtro)
       = Some(s_habitaculo)
  /\ Get(f, s_tipo_vehiculo)
       \notin { Some(s_auto), Some(s_bus), None }

\* mutant: the rule asks for a vehicle to be present
rule_3_needs_vehicle(f) ==
  /\ Get(f, s_tipo_combustible) = Some(s_electrico)
  /\ Get(f, s_tipo_filtro) = Some(s_combustible)
  /\ Get(f, s_tipo_vehiculo) # None

\* electric, fuel filter
rule_3(f) ==
  /\ Get(f, s_tipo_combustible)
       = Some(s_electrico)
  /\ Get(f, s_tipo_filtro)
       = Some(s_combustible)

\* mutant: the filter list of the rule without "polen"
rule_4_without_polen(f) ==
  /\ Get(f, s_tipo_vehiculo) = Some(s_moto)
  /\ Get(f, s_tipo_filtro) \in { Some(s_habitaculo) }

\* motorcycle, pollen or cabin filter
rule_4(f) ==
  /\ Get(f, s_tipo_vehiculo)
       = Some(s_moto)
  /\ Get(f, s_tipo_filtro)
       \in { Some(s_polen),
             Some(s_habitaculo) }

\* rules[n - 1](f)
rules(n, f) ==
  CASE n = 1 -> rule_1(f)
    [] n = 2 -> rule_2(f)
    [] n = 3 -> rule_3(f)
    [] n = 4 -> rule_4(f)

\* mutant: the message names the rule that fired
RECURSIVE check_rules_names_rule(_, _, _)
check_rules_names_rule(order, i, f) ==
  IF i > Len(order) THEN None
  ELSE IF rules(order[i], f)
    THEN Some([MsgIncompatible EXCEPT !.value = << order[i] >>])
  ELSE check_rules_names_rule(order, i + 1, f)

\* for rule in rules: if rule(filters): return "..."; with the list in 'order'
RECURSIVE check_rules(_, _, _)
check_rules(order, i, f) ==
  IF i > Len(order) THEN None
  ELSE IF rules(order[i], f) THEN Some(MsgIncompatible)
  ELSE check_rules(order, i + 1, f)

_check_compatibility(f) == check_rules(<<1, 2, 3, 4>>, 1, f)

-----------------------------------------------------------------------------
(* validate_filter_combo: returns (es_valido, mensaje_error, filtros) *)

\* mutant: len(sanitized_filters) > 2
needs_compatibility_check_above_two(sanitized_filters) ==
  Cardinality(DOMAIN sanitized_filters) > 2

\* len(sanitized_filters) > 1
needs_compatibility_check(sanitized_filters) ==
  Cardinality(DOMAIN sanitized_filters) > 1

\* the statements after the loop
combo_finish(sanitized_filters) ==
  LET compatibility_error ==
        IF needs_compatibility_check(sanitized_filters)
        THEN _check_compatibility(sanitized_filters)
        ELSE None
  IN IF compatibility_error # None
     THEN [ok |-> FALSE, error |-> compatibility_error, filters |-> None]
     ELSE [ok |-> TRUE, error |-> None, filters |-> Some(sanitized_filters)]

\* mutant: an entry that fails validation is skipped like an empty one
RECURSIVE combo_loop_skips_invalid(_, _, _)
combo_loop_skips_invalid(items, i, sanitized_filters) ==
  IF i > Len(items) THEN combo_finish(sanitized_filters)
  ELSE LET sanitized_type == _sanitize_input(items[i][1])
           sanitized_value == _sanitize_input(items[i][2])
       IN IF \/ sanitized_type = << >> \/ sanitized_value = << >>
             \/ ~validate_filter_value(Str(sanitized_type),
                                       Str(sanitized_value)).ok
          THEN combo_loop_skips_invalid(items, i + 1, sanitized_filters)
          ELSE combo_loop_skips_invalid(items, i + 1,
                 DictSet(sanitized_filters, sanitized_type, sanitized_value))

\* mutant: an entry that is empty after sanitization is validated like the
\* others instead of being skipped
RECURSIVE combo_loop_no_drop(_, _, _)
combo_loop_no_drop(items, i, sanitized_filters) ==
  IF i > Len(items) THEN combo_finish(sanitized_filters)
  ELSE LET sanitized_type == _sanitize_input(items[i][1])
           sanitized_value == _sanitize_input(items[i][2])
           r == validate_filter_value(Str(sanitized_type), Str(sanitized_value))
       IN IF ~r.ok
          THEN [ok |-> FALSE,
                error |-> Some(MsgInvalidInCombo(r.error[1])),
                filters |-> None]
          ELSE combo_loop_no_drop(items, i + 1,
                 DictSet(sanitized_filters, sanitized_type, sanitized_value))

\* the loop over filters.items(), from item i on
RECURSIVE combo_loop(_, _, _)
combo_loop(items, i, sanitized_filters) ==
  IF i > Len(items) THEN combo_finish(sanitized_filters)
  ELSE LET sanitized_type == _sanitize_input(items[i][1])
           sanitized_value == _sanitize_input(items[i][2])
       IN IF sanitized_type = << >> \/ sanitized_value = << >>
          THEN combo_loop(items, i + 1, sanitized_filters)
          ELSE LET r == validate_filter_value(Str(sanitized_type),
                                              Str(sanitized_value))
               IN IF ~r.ok
                  THEN [ok |-> FALSE,
                        error |-> Some(MsgInvalidInCombo(r.error[1])),
                        filters |-> None]
                  ELSE combo_loop(items, i + 1,
                         DictSet(sanitized_filters, sanitized_type,
                                 sanitized_value))

\* mutant: the empty mapping is answered without a selection
validate_filter_combo_empty_none(items) ==
  IF items = << >> THEN [ok |-> TRUE, error |-> None, filters |-> None]
  ELSE combo_loop(items, 1, << >>)

\* a dict is the sequence of its items, in insertion order
validate_filter_combo(items) ==
  IF items = << >> THEN [ok |-> TRUE, error |-> None, filters |-> Some(<< >>)]
  ELSE combo_loop(items, 1, << >>)

-----------------------------------------------------------------------------
(* validate_filter_combo on any Python argument: try / except *)

\* a dict as a Python value
Dict(items) == [py |-> "dict", v |-> items]

\* how a try body ends: with an exception or with a returned value
Raise(name) == [exc |-> Some(name), ret |-> None]
Return_(r) == [exc |-> None, ret |-> Some(r)]

\* the try body: 'not filters' returns at once; filters.items() raises
\* AttributeError on a value that is no mapping
validate_filter_combo_try(arg) ==
  IF arg.py = "dict" THEN Return_(validate_filter_combo(arg.v))
  ELSE IF Falsy(arg)
    THEN Return_([ok |-> TRUE, error |-> None, filters |-> Some(<< >>)])
  ELSE Raise("AttributeError")

\* mutant: no except clause, the exception leaves the function
validate_filter_combo_call_no_except(arg) ==
  LET o == validate_filter_combo_try(arg)
  IN IF o.exc # None THEN [exception |-> o.exc[1]] ELSE o.ret[1]

\* except Exception: return False, "Error interno ...", None
validate_filter_combo_call(arg) ==
  LET o == validate_filter_combo_try(arg)
  IN IF o.exc # None
     THEN [ok |-> FALSE, error |-> Some(MsgInternalCombo), filters |-> None]
     ELSE o.ret[1]

-----------------------------------------------------------------------------
(* get_recommended_filters *)

\* a dict with the keys tipo_aceite, tipo_combustible and tipo_filtro
Recommendation(aceite, combustible, filtro) ==
  [k \in {s_tipo_aceite, s_tipo_combustible, s_tipo_filtro} |->
     IF k = s_tipo_aceite THEN aceite
     ELSE IF k = s_tipo_combustible THEN combustible
     ELSE filtro]

\* mutant: the list of "moto" recommends the filter type "polen"
recommendations_moto_polen ==
  [v \in {s_auto, s_moto, s_camion, s_bus} |->
     IF v = s_auto
       THEN Recommendation(<<s_sintetico, s_semi_sintetico>>,
                           <<s_gasolina, s_diesel, s_hibrido>>,
                           <<s_aire, s_aceite, s_combustible, s_polen, s_habitaculo>>)
     ELSE IF v = s_moto
       THEN Recommendation(<<s_sintetico, s_semi_sintetico>>,
                           <<s_gasolina>>,
                           <<s_aire, s_aceite, s_combustible, s_polen>>)
     ELSE IF v = s_camion
       THEN Recommendation(<<s_mineral, s_semi_sintetico>>,
                           <<s_diesel, s_gas>>,
                           <<s_aire, s_aceite, s_combustible, s_hidraulico>>)
     ELSE Recommendation(<<s_mineral, s_semi_sintetico>>,
                         <<s_diesel>>,
                         <<s_aire, s_aceite, s_combustible>>)]

\* mutant: the table without its "bus" entry
recommendations_without_bus ==
  [v \in {s_auto, s_moto, s_camion} |->
     IF v = s_auto
       THEN Recommendation(<<s_sintetico, s_semi_sintetico>>,
                           <<s_gasolina, s_diesel, s_hibrido>>,
                           <<s_aire, s_aceite, s_combustible, s_polen, s_habitaculo>>)
     ELSE IF v = s_moto
       THEN Recommendation(<<s_sintetico, s_semi_sintetico>>,
                           <<s_gasolina>>,
                           <<s_aire, s_aceite, s_combustible>>)
     ELSE Recommendation(<<s_mineral, s_semi_sintetico>>,
                         <<s_diesel, s_gas>>,
                         <<s_aire, s_aceite, s_combustible, s_hidraulico>>)]

recommendations ==
  [v \in {s_auto, s_moto, s_camion, s_bus} |->
     IF v = s_auto
       THEN Recommendation(<<s_sintetico, s_semi_sintetico>>,
                           <<s_gasolina, s_diesel, s_hibrido>>,
                           <<s_aire, s_aceite, s_combustible, s_polen, s_habitaculo>>)
     ELSE IF v = s_moto
       THEN Recommendation(<<s_sintetico, s_semi_sintetico>>,
                           <<s_gasolina>>,
                           <<s_aire, s_aceite, s_combustible>>)
     ELSE IF v = s_camion
       THEN Recommendation(<<s_mineral, s_semi_sintetico>>,
                           <<s_diesel, s_gas>>,
                           <<s_aire, s_aceite, s_combustible, s_hidraulico>>)
     ELSE Recommendation(<<s_mineral, s_semi_sintetico>>,
                         <<s_diesel>>,
                         <<s_aire, s_aceite, s_combustible>>)]

\* returns the recommendation dict, {} as the empty function
get_recommended_filters(vehicle_type_raw) ==
  LET vehicle_type == _sanitize_input(vehicle_type_raw)
  IN IF vehicle_type = << >> THEN << >>
     ELSE IF ~validate_filter_value(Str(s_tipo_vehiculo), Str(vehicle_type)).ok
       THEN << >>
     ELSE IF vehicle_type \in DOMAIN recommendations
       THEN recommendations[vehicle_type]
     ELSE << >>

-----------------------------------------------------------------------------
(* The inputs the callers hand to the core *)

\* 'a', 'A', ' ', '\n', "'", KELVIN SIGN, I WITH DOT ABOVE
RawAlphabet == {97, 65, 32, 10, 39, 8490, 304}

\* every str over RawAlphabet of at most MaxLen characters
ShortStrings == UNION { [1..n -> RawAlphabet] : n \in 0..MaxLen }

\* str.upper() on a token of the vocabulary (ASCII letters only)
upper(s) == [i \in 1..Len(s) |-> IF s[i] \in 97..122 THEN s[i] - 32 ELSE s[i]]

\* ways a caller may write a token t: as is, in capitals, wrapped in blanks,
\* with a quote inside, like " Au'To ", followed by a newline and a quote,
\* quoted with an inner blank, and followed by a hyphen
Decorate(t) ==
  { t,
    upper(t),
    <<32>> \o t \o <<9>>,
    <<t[1], 39>> \o Tail(t),
    <<32, t[1] - 32, t[2], 39>> \o upper(Tail(Tail(t))) \o <<59, 32>>,
    t \o <<10, 39>>,
    <<39, 32>> \o t,
    t \o <<45>> }

Dimensions == DOMAIN filter_map

Tokens == UNION { valid_values(filter_map[d]) : d \in Dimensions }

\* values that are not str: None, 0, 5, [] and [5]
NonStrings ==
  { [py |-> "NoneType", v |-> << >>],
    [py |-> "int", v |-> << >>],
    [py |-> "int", v |-> <<5>>],
    [py |-> "list", v |-> << >>],
    [py |-> "list", v |-> <<5>>] }

\* arguments of _sanitize_input and values of validate_filter_value
RawInputs ==
  { Str(s) : s \in ShortStrings \cup UNION { Decorate(t) : t \in Tokens } }
    \cup NonStrings

\* filter_type arguments of validate_filter_value
RawTypes ==
  { Str(d) : d \in Dimensions }
    \cup { Str(upper(s_tipo_filtro)), Str(<<32>> \o s_tipo_aceite \o <<9>>),
           Str(s_tipo_vehiculo \o <<45>>) }
    \cup { Str(s_tipo), Str(<<97, 32, 97>>), Str(<< >>),
           [py |-> "NoneType", v |-> << >>] }

\* a dict with exactly the given choice per dimension (None: key not given),
\* keys inserted in the order vehiculo, aceite, combustible, filtro
RECURSIVE items_of(_, _)
items_of(keys, choice) ==
  IF keys = << >> THEN << >>
  ELSE (IF choice[Head(keys)] = None THEN << >>
        ELSE << << Str(Head(keys)), Str(choice[Head(keys)][1]) >> >>)
       \o items_of(Tail(keys), choice)

DimensionOrder ==
  << s_tipo_vehiculo, s_tipo_aceite, s_tipo_combustible, s_tipo_filtro >>

\* None or one of the members of an enumeration
OptionOf(enum_class) == {None} \cup { Some(t) : t \in valid_values(enum_class) }

\* every selection of vocabulary tokens, one or none per dimension
CleanSelections ==
  { items_of(DimensionOrder,
             [d \in Dimensions |->
                IF d = s_tipo_vehiculo THEN a
                ELSE IF d = s_tipo_aceite THEN b
                ELSE IF d = s_tipo_combustible THEN c
                ELSE e]) :
      a \in OptionOf(TipoVehiculo), b \in OptionOf(TipoAceite),
      c \in OptionOf(TipoCombustible), e \in OptionOf(TipoFiltro) }

\* keys and values of freely built dicts
RawKeys ==
  { Str(s_tipo_vehiculo),
    Str(<<32>> \o upper(s_tipo_vehiculo) \o <<32>>),
    Str(s_tipo_filtro),
    Str(s_tipo),
    Str(<<97, 32, 97>>),
    [py |-> "NoneType", v |-> << >>] }

RawValues ==
  { Str(TipoVehiculo[1]),
    Str(<<32, 77, 111, 39, 84, 79, 32>>),
    Str(TipoFiltro[4]),
    Str(s_x),
    [py |-> "int", v |-> <<5>>] }

RawPairs == RawKeys \X RawValues

\* dicts of at most MaxPairs entries: the keys of a dict are distinct
RawDicts ==
  UNION { { d \in [1..n -> RawPairs] :
              \A i, j \in 1..n : i # j => d[i][1] # d[j][1] } : n \in 0..MaxPairs }

\* arguments of validate_filter_combo that are no mapping: None, 0, 5, [],
\* [5], "auto" and ""
NonMappings == NonStrings \cup { Str(s_auto), Str(<< >>) }

ComboInputs == CleanSelections \cup RawDicts

-----------------------------------------------------------------------------
(* audit_filter_usage *)

\* s[:n]
Slice(s, n) == SubSeq(s, 1, IF Len(s) < n THEN Len(s) ELSE n)

\* mutant: the sanitized key and value are stored whole
RECURSIVE audit_loop_uncut(_, _, _)
audit_loop_uncut(items, i, sanitized_filters) ==
  IF i > Len(items) THEN sanitized_filters
  ELSE LET sanitized_key == _sanitize_input(items[i][1])
           sanitized_value == _sanitize_input(items[i][2])
       IN IF sanitized_key # << >> /\ sanitized_value # << >>
          THEN audit_loop_uncut(items, i + 1,
                                DictSet(sanitized_filters, sanitized_key, sanitized_value))
          ELSE audit_loop_uncut(items, i + 1, sanitized_filters)

\* the loop over filters.items()
RECURSIVE audit_loop(_, _, _)
audit_loop(items, i, sanitized_filters) ==
  IF i > Len(items) THEN sanitized_filters
  ELSE LET sanitized_key == Slice(_sanitize_input(items[i][1]), 20)
           sanitized_value == Slice(_sanitize_input(items[i][2]), 50)
       IN IF sanitized_key # << >> /\ sanitized_value # << >>
          THEN audit_loop(items, i + 1,
                          DictSet(sanitized_filters, sanitized_key, sanitized_value))
          ELSE audit_loop(items, i + 1, sanitized_filters)

\* the try body: filters.items() raises AttributeError on a value that is
\* no dict, user_ip[:15] raises TypeError on a value that cannot be sliced;
\* otherwise the record handed to filter_logger.info
audit_filter_usage_try(arg, user_ip) ==
  IF arg.py # "dict" THEN Raise("AttributeError")
  ELSE IF user_ip.py \notin {"str", "list"} THEN Raise("TypeError")
  ELSE Return_([level |-> "info",
                ip |-> Slice(user_ip.v, 15),
                filters |-> audit_loop(arg.v, 1, << >>)])

\* mutant: no except clause, the exception leaves the function
audit_filter_usage_no_except(arg, user_ip) ==
  LET o == audit_filter_usage_try(arg, user_ip)
  IN [exc |-> o.exc,
      logged |-> IF o.exc # None THEN None ELSE o.ret,
      filters |-> arg]

\* what a call leaves behind: the exception that left it (none), the record
\* it logged and its filters argument, which no statement assigns to
audit_filter_usage(arg, user_ip) ==
  LET o == audit_filter_usage_try(arg, user_ip)
  IN [exc |-> None,
      logged |-> IF o.exc # None
                 THEN Some([level |-> "error", ip |-> << >>, filters |-> << >>])
                 ELSE o.ret,
      filters |-> arg]

-----------------------------------------------------------------------------
(* routers/rest.py: validate_vehicle_filter_params *)

\* the names of the four parameters, as the handlers list them
allowed_fields == << s_tipo_vehiculo, s_tipo_aceite, s_tipo_combustible, s_tipo_filtro >>

\* the allow-lists of the binder, without their None entry (a str is never
\* equal to None)
allowed_vehicle_types == { s_auto, s_moto, s_camion, s_bus }
allowed_oil_types == { s_sintetico, s_mineral, s_semi_sintetico }
allowed_fuel_types == { s_gasolina, s_diesel, s_electrico, s_hibrido }
allowed_filter_types == { s_aire, s_aceite, s_combustible, s_polen, s_habitaculo }

allowed_of(field) ==
  CASE field = s_tipo_vehiculo -> allowed_vehicle_types
    [] field = s_tipo_aceite -> allowed_oil_types
    [] field = s_tipo_combustible -> allowed_fuel_types
    [] field = s_tipo_filtro -> allowed_filter_types

\* raise HTTPException(status_code, detail): detail names the message and the
\* parameter it is about
HTTPException(status_code, detail, field) ==
  [exc |-> Some("HTTPException"), ret |-> None,
   status_code |-> status_code, detail |-> detail, field |-> field]

\* the first parameter, in the order of the four ifs, that is truthy and
\* whose lower() is not in its allow-list; 0 when there is none
RECURSIVE first_not_allowed(_, _)
first_not_allowed(p, i) ==
  IF i > Len(allowed_fields) THEN 0
  ELSE IF ~Falsy(p[allowed_fields[i]])
          /\ lower(p[allowed_fields[i]].v) \notin allowed_of(allowed_fields[i])
    THEN i
  ELSE first_not_allowed(p, i + 1)

\* p maps each of the four parameter names to None or a str
validate_vehicle_filter_params(p) ==
  LET bad == first_not_allowed(p, 1)
  IN IF bad # 0
     THEN HTTPException(400, "no valido. Valores permitidos", allowed_fields[bad])
     ELSE Return_([f \in DOMAIN p |->
                     IF Falsy(p[f]) THEN [py |-> "NoneType", v |-> << >>]
                     ELSE Str(lower(p[f].v))])

-----------------------------------------------------------------------------
(* services/product_service.py: ProductService.filtrar_por_vehiculo *)

\* [\'"\;]
SqlDangerousChars == {39, 34, 92, 59}

\* ProductService._sanitize_string on a str
_sanitize_string(s) ==
  IF s = << >> THEN s
  ELSE re_sub(SqlDangerousChars, re_sub(ControlChars, strip(s)))

\* schemas.FiltroVehiculo(**d): the four Optional[str] fields, None by default
FiltroVehiculo(d) ==
  [f \in { allowed_fields[i] : i \in DOMAIN allowed_fields } |->
     IF f \in DOMAIN d THEN d[f] ELSE [py |-> "NoneType", v |-> << >>]]

\* the values the query layer lets through for a field
query_values(field) ==
  CASE field = s_tipo_vehiculo -> { s_auto, s_moto, s_camion, s_bus }
    [] field = s_tipo_aceite -> { s_sintetico, s_mineral, s_semi_sintetico }
    [] field = s_tipo_combustible -> { s_gasolina, s_diesel, s_electrico, s_hibrido }
    [] field = s_tipo_filtro -> { s_aire, s_aceite, s_combustible, s_polen, s_habitaculo }

\* the loop over allowed_fields: where is the sequence of the
\* (column, value) equality filters added to the query so far
RECURSIVE filtrar_loop(_, _, _)
filtrar_loop(filtros, i, where) ==
  IF i > Len(allowed_fields) THEN Return_([activo |-> 1, where |-> where])
  ELSE LET field == allowed_fields[i]
           v == filtros[field]
       IN IF Falsy(v) THEN filtrar_loop(filtros, i + 1, where)
          ELSE LET sanitized_value == lower(_sanitize_string(v.v))
               IN IF sanitized_value \notin query_values(field)
                  THEN Raise("ValueError")
                  ELSE filtrar_loop(filtros, i + 1,
                                    Append(where, << field, sanitized_value >>))

\* the query starts from activo == 1; the ValueError is logged and raised
\* again
filtrar_por_vehiculo(filtros) == filtrar_loop(filtros, 1, << >>)

-----------------------------------------------------------------------------
(* services/product_service.py: create, update, partial_update, delete *)

\* [A-Za-z0-9\-_]
BarcodeChars == (65..90) \cup (97..122) \cup (48..57) \cup {45, 95}

\* [A-Za-z0-9\s\-_.,;:...] with the accented vowels and the n with tilde
NameChars ==
  (65..90) \cup (97..122) \cup (48..57) \cup Whitespace
    \cup {45, 95, 46, 44, 59, 58}
    \cup {225, 233, 237, 243, 250, 193, 201, 205, 211, 218, 241, 209}

\* re.match('^[class]{lo,hi}$', s): '$' also matches before a final newline
re_match_class(class, lo, hi, s) ==
  LET whole(t) == Len(t) >= lo /\ Len(t) <= hi /\ \A i \in 1..Len(t) : t[i] \in class
  IN \/ whole(s)
     \/ s # << >> /\ s[Len(s)] = 10 /\ whole(SubSeq(s, 1, Len(s) - 1))

\* self.barcode_pattern.match(s)
barcode_pattern(s) == re_match_class(BarcodeChars, 8, 50, s)

\* self.name_pattern.match(s)
name_pattern(s) == re_match_class(NameChars, 1, 100, s)

\* the ids of the active rows of models.Categoria
Categorias == {1}

\* a row of productos
Producto(id, codigo_barras, nombre, cantidad, activo) ==
  [id |-> id, codigo_barras |-> codigo_barras, nombre |-> nombre,
   cantidad |-> cantidad, activo |-> activo]

\* what a method leaves: how it ended and the table after it
Outcome(out, table) == [out |-> out, productos |-> table]

\* query(...).filter(...).first(): the row with the lowest id, or None
first(table, ids) ==
  IF ids = {} THEN None
  ELSE Some(table[CHOOSE i \in ids : \A j \in ids : i <= j])

\* mutant: the filter on activo left out of the query
get_by_id_any(table, producto_id) ==
  IF producto_id < 1 THEN Raise("ValueError")
  ELSE Return_(first(table, { i \in DOMAIN table : table[i].id = producto_id }))

get_by_id(table, producto_id) ==
  IF producto_id < 1 THEN Raise("ValueError")
  ELSE Return_(first(table, { i \in DOMAIN table :
                                table[i].id = producto_id /\ table[i].activo = 1 }))

\* on a str: strip(), the pattern, _sanitize_string, then the query
get_by_codigo_barras(table, codigo_barras) ==
  IF ~barcode_pattern(strip(codigo_barras)) THEN Raise("ValueError")
  ELSE LET code == _sanitize_string(strip(codigo_barras))
       IN Return_(first(table, { i \in DOMAIN table :
                                   /\ table[i].codigo_barras = code
                                   /\ table[i].activo = 1 }))

\* mutant: the column codigo_barras declared without unique=True
unique_violation_never(table, id, codigo_barras) == FALSE

\* the commit fails on the unique index of codigo_barras when another row,
\* active or not, holds the same value
unique_violation(table, id, codigo_barras) ==
  \E i \in DOMAIN table : table[i].id # id /\ table[i].codigo_barras = codigo_barras

\* mutant: the lookup of the barcode left out
barcode_taken_never(table, codigo_barras) == FALSE

\* existing = self.get_by_codigo_barras(...); if existing: raise
barcode_taken(table, codigo_barras) ==
  get_by_codigo_barras(table, codigo_barras).ret # Some(None)

\* 'existing and existing.id != producto_id'
barcode_taken_by_other(table, codigo_barras, producto_id) ==
  LET existing == get_by_codigo_barras(table, codigo_barras).ret[1]
  IN existing # None /\ existing[1].id # producto_id

\* create(producto): the fields codigo_barras, nombre, categoria_id, cantidad
\* and iva of the schema; marca is a valid brand, and the schema has
\* validated precio_neto, cantidad and porcentaje_ganancia
create(table, producto) ==
  IF producto.codigo_barras = << >> \/ producto.nombre = << >>
    THEN Outcome(Raise("ValueError"), table)
  ELSE LET codigo_barras == _sanitize_string(producto.codigo_barras)
           nombre == _sanitize_string(producto.nombre)
           db_producto == Producto(Len(table) + 1, codigo_barras, nombre,
                                   producto.cantidad, 1)
       IN IF ~barcode_pattern(codigo_barras) THEN Outcome(Raise("ValueError"), table)
          ELSE IF ~name_pattern(nombre) THEN Outcome(Raise("ValueError"), table)
          ELSE IF barcode_taken(table, codigo_barras)
            THEN Outcome(Raise("ValueError"), table)
          ELSE IF producto.categoria_id \notin Categorias
            THEN Outcome(Raise("ValueError"), table)
          ELSE IF producto.iva < 0 \/ producto.iva > 100
            THEN Outcome(Raise("ValueError"), table)
          ELSE IF unique_violation(table, db_producto.id, codigo_barras)
            THEN Outcome(Raise("IntegrityError"), table)
          ELSE Outcome(Return_(Some(db_producto)), Append(table, db_producto))

\* update(producto_id, producto_update): update_data holds codigo_barras
\* and cantidad when they were set (None: not set)
update(table, producto_id, producto_update) ==
  IF producto_id < 1 THEN Outcome(Raise("ValueError"), table)
  ELSE
    LET found == get_by_id(table, producto_id).ret[1]
    IN IF found = None THEN Outcome(Return_(None), table)
       ELSE
         LET db_producto == found[1]
             given == producto_update.codigo_barras # None
             raw == producto_update.codigo_barras[1]
             codigo_barras == IF Falsy(raw) THEN raw.v ELSE _sanitize_string(raw.v)
             updated ==
               [db_producto EXCEPT
                  !.codigo_barras = IF given THEN codigo_barras ELSE @,
                  !.cantidad = IF producto_update.cantidad # None
                               THEN producto_update.cantidad[1] ELSE @]
         IN IF given /\ raw.py # "str" THEN Outcome(Raise("TypeError"), table)
            ELSE IF given /\ ~barcode_pattern(codigo_barras)
              THEN Outcome(Raise("ValueError"), table)
            ELSE IF given /\ barcode_taken_by_other(table, codigo_barras, producto_id)
              THEN Outcome(Raise("ValueError"), table)
            ELSE IF producto_update.cantidad # None /\ producto_update.cantidad[1] < 0
              THEN Outcome(Raise("ValueError"), table)
            ELSE IF unique_violation(table, updated.id, updated.codigo_barras)
              THEN Outcome(Raise("IntegrityError"), table)
            ELSE Outcome(Return_(Some(updated)),
                         [table EXCEPT ![db_producto.id] = updated])

\* partial_update(producto_id, producto_update)
partial_update(table, producto_id, producto_update) ==
  update(table, producto_id, producto_update)

\* delete(producto_id): the soft delete
delete(table, producto_id) ==
  IF producto_id < 1 THEN Outcome(Raise("ValueError"), table)
  ELSE LET found == get_by_id(table, producto_id).ret[1]
       IN IF found = None THEN Outcome(Return_(FALSE), table)
          ELSE Outcome(Return_(TRUE), [table EXCEPT ![found[1].id].activo = 0])

-----------------------------------------------------------------------------
(* routers/graphqll.py: Query.productsByVehicleFilter *)

\* filter_dict: the fields of the input that are not None, in the order the
\* resolver lists them, as the items of a dict
RECURSIVE filter_dict(_, _)
filter_dict(filtros, i) ==
  IF i > Len(allowed_fields) THEN << >>
  ELSE LET f == allowed_fields[i]
       IN (IF filtros[f].py = "NoneType" THEN << >>
           ELSE << << Str(f), filtros[f] >> >>) \o filter_dict(filtros, i + 1)

\* validate_and_sanitize_filters(**kwargs)
validate_and_sanitize_filters(kwargs) == validate_filter_combo_call(Dict(kwargs))

\* mutant: the resolver goes on after a rejection
after_validation_no_raise(is_valid) == "graphql_audit"

\* 'if not is_valid: raise Exception(...)': where the resolver stands after
\* the validation
after_validation(is_valid) == IF is_valid THEN "graphql_audit" ELSE "done"

\* 'sanitized_filters or {}' and the test 'if sanitized_filters': the dict,
\* or the empty one for None and {}
or_empty(sanitized_filters) ==
  IF sanitized_filters = None THEN << >> ELSE sanitized_filters[1]

\* a dict of str values as keyword arguments
as_kwargs(d) == [f \in DOMAIN d |-> Str(d[f])]

-----------------------------------------------------------------------------
(* get_available_filters *)

\* mutant: one mapping is built once and handed to every caller
get_available_filters_shared ==
  IF held # None THEN held[1]
  ELSE << << s_tipo_vehiculo, TipoVehiculo >>,
          << s_tipo_aceite, TipoAceite >>,
          << s_tipo_combustible, TipoCombustible >>,
          << s_tipo_filtro, TipoFiltro >> >>

\* a new dict, as the sequence of its (key, list) items, each list built
\* from the members of the enumeration in declaration order
get_available_filters ==
  << << s_tipo_vehiculo, TipoVehiculo >>,
     << s_tipo_aceite, TipoAceite >>,
     << s_tipo_combustible, TipoCombustible >>,
     << s_tipo_filtro, TipoFiltro >> >>

-----------------------------------------------------------------------------
(* validate_filter_combo, one iteration of its loop at a time *)

\* one iteration of the loop over filters.items(): the call returns
\* (done = Some(result)) or goes on with the new sanitized_filters
combo_step(item, sanitized_filters) ==
  LET sanitized_type == _sanitize_input(item[1])
      sanitized_value == _sanitize_input(item[2])
  IN IF sanitized_type = << >> \/ sanitized_value = << >>
     THEN [done |-> None, sanitized_filters |-> sanitized_filters]
     ELSE LET r == validate_filter_value(Str(sanitized_type), Str(sanitized_value))
          IN IF ~r.ok
             THEN [done |-> Some([ok |-> FALSE,
                                  error |-> Some(MsgInvalidInCombo(r.error[1])),
                                  filters |-> None]),
                   sanitized_filters |-> sanitized_filters]
             ELSE [done |-> None,
                   sanitized_filters |->
                     DictSet(sanitized_filters, sanitized_type, sanitized_value)]

\* mutant: sanitized_filters is one dict of the class, shared by all calls
acc_shared(t) == 1

\* the call whose frame holds the sanitized_filters that the call of thread
\* t reads and writes: sanitized_filters is a local variable
acc_of(t) == t

-----------------------------------------------------------------------------
(* The callers: one call of the core at a time, then its return *)

NoValue == [py |-> "NoneType", v |-> << >>]

Threads == 1..MaxThreads

\* no call of ProductService has been made
NoCall == [method |-> "none", producto_id |-> 0, data |-> << >>]

\* no product endpoint is answering
NoHttpRequest ==
  [endpoint |-> "none", credentials |-> << >>, utcnow |-> 0, utc_offset |-> 0]

\* the clients of RateLimitMiddleware: request.client.host
ClientIps == {"10.0.0.1", "10.0.0.2"}

\* RateLimitMiddleware has handled no request
NoDispatch == [client_ip |-> "none", status_code |-> 0]

\* no request is being served
NoRequest == [endpoint |-> "none", filtros |-> << >>, skip |-> 0, complexity |-> 0]

\* a thread that is in no call
IdleCall ==
  [pc |-> "idle", kind |-> "none", filter_type |-> NoValue, value |-> NoValue,
   items |-> << >>, given |-> << >>, i |-> 0, sanitized_filters |-> << >>,
   result |-> << >>]

\* the state once RateLimitMiddleware(app, requests_per_minute=n) and the
\* other objects are constructed
Constructed(n) ==
  /\ pc = "idle"
  /\ op = "none"
  /\ filter_type = NoValue
  /\ value = NoValue
  /\ filters = << >>
  /\ result = << >>
  /\ held = None
  /\ mutations = 0
  /\ calls = [t \in Threads |-> IdleCall]
  /\ handler = "idle"
  /\ request = NoRequest
  /\ validated = None
  /\ log = << >>
  /\ response = None
  /\ productos = << >>
  /\ service_pc = "idle"
  /\ service_call = NoCall
  /\ service_out = None
  /\ http_request = NoHttpRequest
  /\ http_status = 0
  /\ requests_per_minute = n
  /\ request_counts = [ip \in {} |-> NoDispatch]
  /\ clock = 0
  /\ dispatched = NoDispatch
  /\ forwarded = [ip \in ClientIps |-> 0]

\* requests_per_minute: int = 60
Init == Constructed(60)

\* VehicleFilter._sanitize_input(x), x drawn from X
SanitizeInputOver(X) ==
  /\ pc = "idle"
  /\ \E x \in X :
       /\ value' = x
       /\ result' = _sanitize_input(x)
  /\ op' = "_sanitize_input"
  /\ pc' = "returned"
  /\ UNCHANGED <<filter_type, filters, held, mutations, calls, layer_vars>>

SanitizeInput == SanitizeInputOver(RawInputs)

\* VehicleFilter.validate_filter_value(t, x), t drawn from T and x from X
ValidateFilterValueOver(T, X) ==
  /\ pc = "idle"
  /\ \E t \in T, x \in X :
       /\ filter_type' = t
       /\ value' = x
       /\ result' = validate_filter_value(t, x)
  /\ op' = "validate_filter_value"
  /\ pc' = "returned"
  /\ UNCHANGED <<filters, held, mutations, calls, layer_vars>>

ValidateFilterValue == ValidateFilterValueOver(RawTypes, RawInputs)

\* VehicleFilter.validate_filter_combo(d), d drawn from D
ValidateFilterComboOver(D) ==
  /\ pc = "idle"
  /\ \E d \in D :
       /\ filters' = d
       /\ result' = validate_filter_combo_call(Dict(d))
  /\ op' = "validate_filter_combo"
  /\ pc' = "returned"
  /\ UNCHANGED <<filter_type, value, held, mutations, calls, layer_vars>>

ValidateFilterCombo == ValidateFilterComboOver(ComboInputs)

\* VehicleFilter.validate_filter_combo(x) with x no mapping
ValidateFilterComboNonMapping ==
  /\ pc = "idle"
  /\ \E x \in NonMappings :
       /\ value' = x
       /\ result' = validate_filter_combo_call(x)
  /\ op' = "validate_filter_combo_non_mapping"
  /\ pc' = "returned"
  /\ UNCHANGED <<filter_type, filters, held, mutations, calls, layer_vars>>

\* VehicleFilter.get_recommended_filters(x), x drawn from X
GetRecommendedFiltersOver(X) ==
  /\ pc = "idle"
  /\ \E x \in X :
       /\ value' = x
       /\ result' = get_recommended_filters(x)
  /\ op' = "get_recommended_filters"
  /\ pc' = "returned"
  /\ UNCHANGED <<filter_type, filters, held, mutations, calls, layer_vars>>

GetRecommendedFilters == GetRecommendedFiltersOver(RawInputs)

\* the caller has taken the result; the core keeps nothing of the call
Return ==
  /\ pc = "returned"
  /\ pc' = "idle"
  /\ op' = "none"
  /\ filter_type' = NoValue
  /\ value' = NoValue
  /\ filters' = << >>
  /\ result' = << >>
  /\ UNCHANGED <<held, mutations, calls, layer_vars>>

Next ==
  \/ SanitizeInput
  \/ ValidateFilterValue
  \/ ValidateFilterCombo
  \/ ValidateFilterComboNonMapping
  \/ GetRecommendedFilters
  \/ Return

Spec == Init /\ [][Next]_vars

-----------------------------------------------------------------------------
(* A caller that keeps and changes what get_available_filters returned *)

\* VehicleFilter.get_available_filters(); the caller keeps the first mapping
\* it was given
GetAvailableFilters ==
  /\ pc = "idle"
  /\ result' = get_available_filters
  /\ held' = IF held = None THEN Some(result') ELSE held
  /\ op' = "get_available_filters"
  /\ pc' = "returned"
  /\ UNCHANGED <<filter_type, value, filters, mutations, calls, layer_vars>>

\* list.reverse()
Reverse(l) == [j \in 1..Len(l) |-> l[Len(l) + 1 - j]]

\* what one statement of the caller makes of the mapping m: del m[key],
\* m[key].append("x") or m[key].reverse()
Mutated(m) ==
  { SubSeq(m, 1, j - 1) \o SubSeq(m, j + 1, Len(m)) : j \in DOMAIN m }
    \cup { [m EXCEPT ![j] = << m[j][1], m[j][2] \o << s_x >> >>] : j \in DOMAIN m }
    \cup { [m EXCEPT ![j] = << m[j][1], Reverse(m[j][2]) >>] : j \in DOMAIN m }

\* the caller changes the mapping it holds
CallerMutates ==
  /\ pc = "idle"
  /\ held # None
  /\ mutations < MaxMutations
  /\ \E m \in Mutated(held[1]) : held' = Some(m)
  /\ mutations' = mutations + 1
  /\ UNCHANGED <<pc, op, filter_type, value, filters, result, calls, layer_vars>>

\* a few arguments of the other operations
SampleInputs ==
  { Str(<<32, 65, 117, 39, 84, 79, 59, 32>>), Str(s_x), NoValue }

SampleTypes == { Str(s_tipo_vehiculo), Str(s_tipo) }

SampleDicts ==
  { << >>,
    << << Str(s_tipo_vehiculo), Str(s_moto) >>,
       << Str(s_tipo_filtro), Str(s_polen) >> >>,
    << << Str(s_tipo_vehiculo), Str(s_auto) >>,
       << Str(s_tipo_filtro), Str(s_habitaculo) >> >> }

NextAvailable ==
  \/ GetAvailableFilters
  \/ CallerMutates
  \/ SanitizeInputOver(SampleInputs)
  \/ ValidateFilterValueOver(SampleTypes, SampleInputs)
  \/ ValidateFilterComboOver(SampleDicts)
  \/ GetRecommendedFiltersOver(SampleInputs)
  \/ Return

SpecAvailable == Init /\ [][NextAvailable]_vars

-----------------------------------------------------------------------------
(* Threads that call the validators at the same time *)

\* the dicts and the (filter_type, value) pairs the threads pass
ConcurrentDicts ==
  { << >>,
    << << Str(s_tipo_vehiculo), Str(s_moto) >>,
       << Str(s_tipo_filtro), Str(s_polen) >> >>,
    << << Str(s_tipo_vehiculo), Str(s_auto) >>,
       << Str(s_tipo_filtro), Str(TipoFiltro[5]) >> >>,
    << << NoValue, Str(s_auto) >>,
       << Str(s_tipo_filtro), Str(<<32, 80, 111, 39, 76, 69, 78, 32>>) >> >>,
    << << Str(s_tipo_vehiculo), Str(s_auto) >>,
       << Str(s_tipo), Str(s_x) >> >> }

ConcurrentValues ==
  { << Str(s_tipo_vehiculo), Str(<<32, 65, 117, 39, 84, 79, 59, 32>>) >>,
    << Str(s_tipo_filtro), Str(s_auto) >>,
    << Str(s_tipo), Str(s_auto) >> }

\* thread t calls validate_filter_value, which runs on its own locals
CallValue(t) ==
  /\ calls[t].pc = "idle"
  /\ \E a \in ConcurrentValues :
       calls' = [calls EXCEPT
                   ![t] = [IdleCall EXCEPT
                             !.pc = "done", !.kind = "value",
                             !.filter_type = a[1], !.value = a[2],
                             !.result = validate_filter_value(a[1], a[2])]]
  /\ UNCHANGED <<pc, op, filter_type, value, filters, result, held, mutations, layer_vars>>

\* thread t calls validate_filter_combo(d): 'not filters' returns at once,
\* otherwise sanitized_filters = {} and the loop starts
CallCombo(t) ==
  /\ calls[t].pc = "idle"
  /\ \E d \in ConcurrentDicts :
       IF d = << >>
       THEN calls' = [calls EXCEPT
                        ![t] = [IdleCall EXCEPT
                                  !.pc = "done", !.kind = "combo",
                                  !.result = [ok |-> TRUE, error |-> None,
                                              filters |-> Some(<< >>)]]]
       ELSE calls' = [calls EXCEPT
                        ![t] = [IdleCall EXCEPT
                                  !.pc = "loop", !.kind = "combo",
                                  !.items = d, !.given = d, !.i = 1],
                        ![acc_of(t)].sanitized_filters = << >>]
  /\ UNCHANGED <<pc, op, filter_type, value, filters, result, held, mutations, layer_vars>>

\* one iteration of the loop of the call of thread t
LoopStep(t) ==
  /\ calls[t].pc = "loop"
  /\ calls[t].i <= Len(calls[t].items)
  /\ LET st == combo_step(calls[t].items[calls[t].i],
                          calls[acc_of(t)].sanitized_filters)
     IN IF st.done # None
        THEN calls' = [calls EXCEPT ![t].pc = "done", ![t].result = st.done[1]]
        ELSE calls' = [calls EXCEPT
                         ![t].i = calls[t].i + 1,
                         ![acc_of(t)].sanitized_filters = st.sanitized_filters]
  /\ UNCHANGED <<pc, op, filter_type, value, filters, result, held, mutations, layer_vars>>

\* the loop is over: the compatibility check and the return
FinishCombo(t) ==
  /\ calls[t].pc = "loop"
  /\ calls[t].i > Len(calls[t].items)
  /\ calls' = [calls EXCEPT
                 ![t].pc = "done",
                 ![t].result = combo_finish(calls[acc_of(t)].sanitized_filters)]
  /\ UNCHANGED <<pc, op, filter_type, value, filters, result, held, mutations, layer_vars>>

\* the caller of thread t takes the result
TakeResult(t) ==
  /\ calls[t].pc = "done"
  /\ calls' = [calls EXCEPT ![t] = IdleCall]
  /\ UNCHANGED <<pc, op, filter_type, value, filters, result, held, mutations, layer_vars>>

NextConcurrent ==
  \E t \in Threads :
    \/ CallValue(t)
    \/ CallCombo(t)
    \/ LoopStep(t)
    \/ FinishCombo(t)
    \/ TakeResult(t)

SpecConcurrent == Init /\ [][NextConcurrent]_vars

-----------------------------------------------------------------------------
(* Calls of audit_filter_usage *)

\* a str of n characters c
Repeat(c, n) == [i \in 1..n |-> c]

\* keys and values of the audited dicts: some longer than the cuts
AuditKeys ==
  { Str(s_tipo_vehiculo),
    Str(<<32>> \o upper(s_tipo_vehiculo) \o <<32>>),
    Str(Repeat(97, 21)),
    Str(Repeat(97, 22)),
    Str(<<97, 32, 97>>),
    [py |-> "NoneType", v |-> << >>] }

AuditValues ==
  { Str(s_auto),
    Str(<<32, 77, 111, 39, 84, 79, 32>>),
    Str(Repeat(98, 51)),
    [py |-> "int", v |-> <<5>>] }

AuditDicts ==
  UNION { { d \in [1..n -> AuditKeys \X AuditValues] :
              \A i, j \in 1..n : i # j => d[i][1] # d[j][1] } : n \in 0..MaxPairs }

\* origin identifiers: "1.2.3.4", a str of 16 characters, None, 5 and [5]
Origins ==
  { Str(<<49, 46, 50, 46, 51, 46, 52>>),
    Str(Repeat(49, 16)),
    [py |-> "NoneType", v |-> << >>],
    [py |-> "int", v |-> <<5>>],
    [py |-> "list", v |-> <<5>>] }

\* VehicleFilter.audit_filter_usage(d, user_ip) on a dict d
AuditFilterUsage ==
  /\ pc = "idle"
  /\ \E d \in AuditDicts, user_ip \in Origins :
       /\ filters' = d
       /\ value' = user_ip
       /\ result' = audit_filter_usage(Dict(d), user_ip)
  /\ op' = "audit_filter_usage"
  /\ pc' = "returned"
  /\ UNCHANGED <<filter_type, held, mutations, calls, layer_vars>>

\* VehicleFilter.audit_filter_usage(x, user_ip) with x no dict
AuditFilterUsageNonMapping ==
  /\ pc = "idle"
  /\ \E x \in NonMappings, user_ip \in Origins :
       /\ filter_type' = x
       /\ value' = user_ip
       /\ result' = audit_filter_usage(x, user_ip)
  /\ op' = "audit_filter_usage_non_mapping"
  /\ pc' = "returned"
  /\ UNCHANGED <<filters, held, mutations, calls, layer_vars>>

NextAudit ==
  \/ AuditFilterUsage
  \/ AuditFilterUsageNonMapping
  \/ Return

SpecAudit == Init /\ [][NextAudit]_vars

-----------------------------------------------------------------------------
(* The handlers of a vehicle-filter request *)

\* the values a client sends for each of the four parameters
ParamValues(field) ==
  CASE field = s_tipo_vehiculo ->
         { [py |-> "NoneType", v |-> << >>], Str(s_auto), Str(s_moto), Str(s_camion),
           Str(s_maquinaria), Str(upper(s_auto)), Str(<<32>> \o s_auto), Str(<< >>) }
    [] field = s_tipo_aceite ->
         { [py |-> "NoneType", v |-> << >>], Str(s_sintetico), Str(s_transmision) }
    [] field = s_tipo_combustible ->
         { [py |-> "NoneType", v |-> << >>], Str(s_diesel), Str(s_electrico), Str(s_gas) }
    [] field = s_tipo_filtro ->
         { [py |-> "NoneType", v |-> << >>], Str(s_polen), Str(s_habitaculo),
           Str(s_combustible), Str(s_agua) }

Filtros ==
  { f \in [ { allowed_fields[i] : i \in DOMAIN allowed_fields } ->
              UNION { ParamValues(allowed_fields[i]) : i \in DOMAIN allowed_fields } ] :
      \A k \in DOMAIN f : f[k] \in ParamValues(k) }

\* skip as sent, and the complexity the middleware computes for the query
Requests ==
  [endpoint : {"graphql", "rest"}, filtros : Filtros, skip : {-1, 0},
   complexity : {1, 101}]

Called_(hook, arg) == [hook |-> hook, arg |-> arg]

\* a GraphQL query arrives: the security middleware raises on a query that
\* is too complex before the resolver runs, and the resolver raises on a
\* negative skip before it validates
GraphQLRequest ==
  /\ handler = "idle"
  /\ \E r \in Requests :
       /\ r.endpoint = "graphql"
       /\ request' = r
       /\ IF r.complexity > 100 \/ r.skip < 0
          THEN /\ handler' = "done"
               /\ response' = Some([exc |-> Some("Exception"), where |-> << >>])
          ELSE /\ handler' = "graphql_validate"
               /\ response' = None
  /\ UNCHANGED <<validated, log, core_vars, product_vars, access_vars, limiter_vars>>

\* is_valid, error_msg, sanitized_filters = validate_and_sanitize_filters(...)
GraphQLValidate ==
  /\ handler = "graphql_validate"
  /\ LET kwargs == filter_dict(request.filtros, 1)
         v == validate_and_sanitize_filters(kwargs)
     IN /\ validated' = Some(v)
        /\ log' = Append(log, Called_("validate_and_sanitize_filters", kwargs))
        /\ handler' = after_validation(v.ok)
        /\ response' = IF after_validation(v.ok) = "done"
                       THEN Some([exc |-> Some("Exception"), where |-> << >>])
                       ELSE None
  /\ UNCHANGED <<request, core_vars, product_vars, access_vars, limiter_vars>>

\* VehicleFilter.audit_filter_usage(sanitized_filters or {}, client_ip),
\* which returns None and never raises
GraphQLAudit ==
  /\ handler = "graphql_audit"
  /\ log' = Append(log, Called_("audit_filter_usage", or_empty(validated[1].filters)))
  /\ handler' = "graphql_query"
  /\ UNCHANGED <<request, validated, response, core_vars, product_vars, access_vars, limiter_vars>>

\* service.filtrar_por_vehiculo(filtro_schema, ...): its ValueError leaves
\* the resolver; its result is returned to the wrapper of the middleware,
\* whose 'await' of a value that is no awaitable raises TypeError
GraphQLQuery ==
  /\ handler = "graphql_query"
  /\ LET filtro_schema == FiltroVehiculo(as_kwargs(or_empty(validated[1].filters)))
         q == filtrar_por_vehiculo(filtro_schema)
     IN /\ log' = Append(log, Called_("filtrar_por_vehiculo", filtro_schema))
        /\ response' = IF q.exc # None
                       THEN Some([exc |-> q.exc, where |-> << >>])
                       ELSE Some([exc |-> Some("TypeError"), where |-> q.ret[1].where])
  /\ handler' = "done"
  /\ UNCHANGED <<request, validated, core_vars, product_vars, access_vars, limiter_vars>>

\* a REST request with a valid token arrives
RestRequest ==
  /\ handler = "idle"
  /\ \E r \in Requests :
       /\ r.endpoint = "rest"
       /\ r.complexity = 1
       /\ request' = r
  /\ handler' = "rest_validate"
  /\ UNCHANGED <<validated, log, response, core_vars, product_vars, access_vars, limiter_vars>>

\* filtros_validados = validate_vehicle_filter_params(...), then
\* validate_pagination_params: both raise HTTPException(400)
RestValidate ==
  /\ handler = "rest_validate"
  /\ LET b == validate_vehicle_filter_params(request.filtros)
     IN /\ validated' = Some(b)
        /\ log' = Append(log, Called_("validate_vehicle_filter_params", request.filtros))
        /\ IF b.exc # None \/ request.skip < 0
           THEN /\ handler' = "done"
                /\ response' = Some([exc |-> Some("HTTPException"), status_code |-> 400,
                                     where |-> << >>])
           ELSE /\ handler' = "rest_query"
                /\ response' = None
  /\ UNCHANGED <<request, core_vars, product_vars, access_vars, limiter_vars>>

\* filtros = schemas.FiltroVehiculo(**filtros_validados), then
\* service.filtrar_por_vehiculo(filtros, skip, limit): ValueError becomes
\* HTTPException(400)
RestQuery ==
  /\ handler = "rest_query"
  /\ LET filtros_ == FiltroVehiculo(validated[1].ret[1])
         q == filtrar_por_vehiculo(filtros_)
     IN /\ log' = Append(log, Called_("filtrar_por_vehiculo", filtros_))
        /\ response' = IF q.exc # None
                       THEN Some([exc |-> Some("HTTPException"), status_code |-> 400,
                                  where |-> << >>])
                       ELSE Some([exc |-> None, status_code |-> 200,
                                  where |-> q.ret[1].where])
  /\ handler' = "done"
  /\ UNCHANGED <<request, validated, core_vars, product_vars, access_vars, limiter_vars>>

\* the response is sent; the handlers keep nothing of the request
Respond ==
  /\ handler = "done"
  /\ handler' = "idle"
  /\ request' = NoRequest
  /\ validated' = None
  /\ log' = << >>
  /\ response' = None
  /\ UNCHANGED <<core_vars, product_vars, access_vars, limiter_vars>>

NextRequests ==
  \/ GraphQLRequest
  \/ GraphQLValidate
  \/ GraphQLAudit
  \/ GraphQLQuery
  \/ RestRequest
  \/ RestValidate
  \/ RestQuery
  \/ Respond

SpecRequests == Init /\ [][NextRequests]_vars

-----------------------------------------------------------------------------
(* A caller that validates what get_recommended_filters recommends *)

\* the selections made of the vehicle type v and of none or one of the
\* tokens that rec lists for each of the other dimensions
RecommendedSelections(v, rec) ==
  { items_of(DimensionOrder,
             [d \in Dimensions |->
                IF d = s_tipo_vehiculo THEN Some(v)
                ELSE IF c[d] = 0 THEN None
                ELSE Some(rec[d][c[d]])]) :
      c \in { x \in [DOMAIN rec -> 0..Len(TipoFiltro)] :
                \A d \in DOMAIN rec : x[d] <= Len(rec[d]) } }

\* get_recommended_filters(v), then validate_filter_combo on a selection
\* taken from what it returned
ValidateRecommended ==
  /\ pc = "idle"
  /\ \E v \in valid_values(TipoVehiculo) :
       LET rec == get_recommended_filters(Str(v))
       IN /\ DOMAIN rec # {}
          /\ \E d \in RecommendedSelections(v, rec) :
               /\ value' = Str(v)
               /\ filters' = d
               /\ result' = validate_filter_combo_call(Dict(d))
  /\ op' = "validate_recommended"
  /\ pc' = "returned"
  /\ UNCHANGED <<filter_type, held, mutations, calls, layer_vars>>

NextRecommended ==
  \/ GetRecommendedFilters
  \/ ValidateRecommended
  \/ Return

SpecRecommended == Init /\ [][NextRecommended]_vars

-----------------------------------------------------------------------------
(* Calls of ProductService *)

\* barcodes as sent: "AAAAAAAA", " AAAA'AAAA " (the same once sanitized),
\* "BBBBBBBB", "aaaaaaaa", "A" and ""
RawBarcodes ==
  { Repeat(65, 8),
    <<32>> \o Repeat(65, 4) \o <<39>> \o Repeat(65, 4) \o <<32>>,
    Repeat(66, 8),
    Repeat(97, 8),
    <<65>>,
    << >> }

\* the arguments of create: names "F", "<" and ""
ProductoCreate ==
  [codigo_barras : RawBarcodes, nombre : { <<70>>, <<60>>, << >> },
   categoria_id : {1, 2}, cantidad : {0}, iva : {19, 101}]

\* the arguments of update: codigo_barras not set, None or a str
ProductoUpdate ==
  [codigo_barras : {None} \cup { Some(x) : x \in { [py |-> "NoneType", v |-> << >>] }
                                            \cup { Str(b) : b \in RawBarcodes } },
   cantidad : {None, Some(5), Some(-1)}]

\* ids as sent: 0 is no id, MaxProducts + 1 is the id of no row
ProductIds == 0..(MaxProducts + 1)

Call(method, producto_id, data) ==
  [method |-> method, producto_id |-> producto_id, data |-> data]

\* the effect of a call: the table after it and what the caller gets
Returned(call, o) ==
  /\ service_call' = call
  /\ service_out' = Some(o.out)
  /\ productos' = o.productos
  /\ service_pc' = "returned"
  /\ UNCHANGED <<core_vars, request_vars, access_vars, limiter_vars>>

Create ==
  /\ service_pc = "idle"
  /\ Len(productos) < MaxProducts
  /\ \E producto \in ProductoCreate :
       Returned(Call("create", 0, producto), create(productos, producto))

Update ==
  /\ service_pc = "idle"
  /\ \E producto_id \in ProductIds, producto_update \in ProductoUpdate :
       Returned(Call("update", producto_id, producto_update),
                update(productos, producto_id, producto_update))

PartialUpdate ==
  /\ service_pc = "idle"
  /\ \E producto_id \in ProductIds, producto_update \in ProductoUpdate :
       Returned(Call("partial_update", producto_id, producto_update),
                partial_update(productos, producto_id, producto_update))

Delete ==
  /\ service_pc = "idle"
  /\ \E producto_id \in ProductIds :
       Returned(Call("delete", producto_id, << >>), delete(productos, producto_id))

GetById ==
  /\ service_pc = "idle"
  /\ \E producto_id \in ProductIds :
       Returned(Call("get_by_id", producto_id, << >>),
                Outcome(get_by_id(productos, producto_id), productos))

\* the caller has taken the result; the table stays
ServiceReturn ==
  /\ service_pc = "returned"
  /\ service_pc' = "idle"
  /\ service_call' = NoCall
  /\ service_out' = None
  /\ UNCHANGED <<productos, core_vars, request_vars, access_vars, limiter_vars>>

NextProducts ==
  \/ Create
  \/ Update
  \/ PartialUpdate
  \/ Delete
  \/ GetById
  \/ ServiceReturn

SpecProducts == Init /\ [][NextProducts]_vars

-----------------------------------------------------------------------------
(* routers/rest.py: authentication and role-based access *)

\* RBAC.ROLES
ROLES ==
  [admin |-> <<"create", "read", "update", "delete">>,
   manager |-> <<"create", "read", "update">>,
   viewer |-> <<"read">>]

has_permission_of_unknown_roles(role, permission) ==
  role \notin DOMAIN ROLES \/ \E i \in DOMAIN ROLES[role] : ROLES[role][i] = permission

\* RBAC.has_permission(role, permission)
has_permission(role, permission) ==
  role \in DOMAIN ROLES /\ \E i \in DOMAIN ROLES[role] : ROLES[role][i] = permission

\* jwt.decode(credentials.credentials, settings.JWT_SECRET, algorithms=[...]):
\* JWTError when the signature does not verify or when exp lies before utcnow
jwt_decode(token, utcnow) ==
  IF ~token.signed THEN Raise("JWTError")
  ELSE IF token.payload.exp # None /\ token.payload.exp[1] < utcnow
    THEN Raise("JWTError")
  ELSE Return_(token.payload)

\* verify_token(credentials): utc_offset is what datetime.fromtimestamp adds
\* to a timestamp on the server, utcnow is datetime.utcnow()
verify_token(credentials, utcnow, utc_offset) ==
  IF credentials = None
    THEN HTTPException(401, "Token de autenticacion requerido", "")
  ELSE
    LET decoded == jwt_decode(credentials[1], utcnow)
    IN IF decoded.exc # None
         THEN HTTPException(401, "Token invalido o expirado", "")
       ELSE
         LET payload == decoded.ret[1]
             username == payload.sub
             role == IF payload.role = None THEN "viewer" ELSE payload.role[1]
             exp == payload.exp
         IN IF username = None \/ username = Some("")
              THEN HTTPException(401, "Token invalido: usuario no especificado", "")
            ELSE IF exp # None /\ exp # Some(0) /\ exp[1] + utc_offset < utcnow
              THEN HTTPException(401, "Token expirado", "")
            ELSE Return_([username |-> username[1], role |-> role])

\* require_role(required_role): role_checker on what verify_token gave
require_role(required_role, auth) ==
  IF auth.exc # None THEN auth
  ELSE IF auth.ret[1].role # required_role
    THEN HTTPException(403, "Permisos insuficientes", "")
  ELSE auth

\* require_permission(permission): permission_checker on what verify_token gave
require_permission(permission, auth) ==
  IF auth.exc # None THEN auth
  ELSE IF ~has_permission(auth.ret[1].role, permission)
    THEN HTTPException(403, "Permisos insuficientes", "")
  ELSE auth

\* the role claims sent: none, the three roles, and two that are no role
RoleClaims == {None} \cup { Some(r) : r \in {"admin", "manager", "viewer", "root", "Admin"} }

\* the payloads of the tokens sent: sub missing, "" or "u"; exp missing, 0,
\* before, at and after the time of the request
Payloads ==
  [sub : {None, Some(""), Some("u")}, role : RoleClaims,
   exp : {None, Some(0), Some(1), Some(2), Some(3)}]

\* the Authorization header: missing, or a bearer token whose signature
\* verifies or does not
Credentials ==
  {None} \cup { Some([signed |-> b, payload |-> p]) : b \in BOOLEAN, p \in Payloads }

\* the requests sent to the product endpoints, at time 2 on a server at
\* UTC-1, UTC or UTC+1
HttpRequests ==
  [endpoint : {"get_producto_by_id", "create_producto", "update_producto",
               "partial_update_producto", "delete_producto"},
   credentials : Credentials, utcnow : {2}, utc_offset : {-1, 0, 1}]

\* the bodies sent to create_producto and to the two updates
HttpCreates == { p \in ProductoCreate : p.categoria_id = 1 /\ p.iva = 19 /\ p.nombre = <<70>>
                                        /\ p.codigo_barras \in {Repeat(65, 8), <<65>>} }

HttpUpdates == { u \in ProductoUpdate : u.codigo_barras = None /\ u.cantidad # None }

\* the dependency failed: its HTTPException is the response and the body of
\* the endpoint does not run
Refused(r, auth) ==
  /\ auth.exc # None
  /\ http_request' = r
  /\ http_status' = auth.status_code
  /\ UNCHANGED <<product_vars, core_vars, request_vars, limiter_vars>>

\* the body of the endpoint ran: it called the service and answered
Served(r, call, o, status_code) ==
  /\ http_request' = r
  /\ http_status' = status_code
  /\ service_call' = call
  /\ service_out' = Some(o.out)
  /\ productos' = o.productos
  /\ service_pc' = "returned"
  /\ UNCHANGED <<core_vars, request_vars, limiter_vars>>

\* get_producto_by_id: Depends(verify_token); None is answered with 404
get_producto_by_id ==
  /\ http_request = NoHttpRequest
  /\ \E r \in HttpRequests, producto_id \in ProductIds :
       /\ r.endpoint = "get_producto_by_id"
       /\ LET auth == verify_token(r.credentials, r.utcnow, r.utc_offset)
              out == get_by_id(productos, producto_id)
          IN \/ Refused(r, auth)
             \/ /\ auth.exc = None
                /\ Served(r, Call("get_by_id", producto_id, << >>),
                          Outcome(out, productos),
                          IF out.exc # None THEN 500
                          ELSE IF out.ret[1] = None THEN 404 ELSE 200)

\* create_producto: Depends(require_permission("create")); ValueError is
\* answered with 400, any other exception with 500
create_producto ==
  /\ http_request = NoHttpRequest
  /\ Len(productos) < MaxProducts
  /\ \E r \in HttpRequests, producto \in HttpCreates :
       /\ r.endpoint = "create_producto"
       /\ LET auth == require_permission("create",
                        verify_token(r.credentials, r.utcnow, r.utc_offset))
              o == create(productos, producto)
          IN \/ Refused(r, auth)
             \/ /\ auth.exc = None
                /\ Served(r, Call("create", 0, producto), o,
                          IF o.out.exc = Some("ValueError") THEN 400
                          ELSE IF o.out.exc # None THEN 500 ELSE 200)

\* update_producto: Depends(require_permission("update")); None is answered
\* with 404, an exception is raised again
update_producto ==
  /\ http_request = NoHttpRequest
  /\ \E r \in HttpRequests, producto_id \in ProductIds, producto_update \in HttpUpdates :
       /\ r.endpoint = "update_producto"
       /\ LET auth == require_permission("update",
                        verify_token(r.credentials, r.utcnow, r.utc_offset))
              o == update(productos, producto_id, producto_update)
          IN \/ Refused(r, auth)
             \/ /\ auth.exc = None
                /\ Served(r, Call("update", producto_id, producto_update), o,
                          IF o.out.exc # None THEN 500
                          ELSE IF o.out.ret[1] = None THEN 404 ELSE 200)

\* partial_update_producto: Depends(require_permission("update"))
partial_update_producto ==
  /\ http_request = NoHttpRequest
  /\ \E r \in HttpRequests, producto_id \in ProductIds, producto_update \in HttpUpdates :
       /\ r.endpoint = "partial_update_producto"
       /\ LET auth == require_permission("update",
                        verify_token(r.credentials, r.utcnow, r.utc_offset))
              o == partial_update(productos, producto_id, producto_update)
          IN \/ Refused(r, auth)
             \/ /\ auth.exc = None
                /\ Served(r, Call("partial_update", producto_id, producto_update), o,
                          IF o.out.exc # None THEN 500
                          ELSE IF o.out.ret[1] = None THEN 404 ELSE 200)

\* delete_producto: Depends(require_role("admin")); False is answered with 404
delete_producto ==
  /\ http_request = NoHttpRequest
  /\ \E r \in HttpRequests, producto_id \in ProductIds :
       /\ r.endpoint = "delete_producto"
       /\ LET auth == require_role("admin",
                        verify_token(r.credentials, r.utcnow, r.utc_offset))
              o == delete(productos, producto_id)
          IN \/ Refused(r, auth)
             \/ /\ auth.exc = None
                /\ Served(r, Call("delete", producto_id, << >>), o,
                          IF o.out.exc # None THEN 500
                          ELSE IF o.out.ret[1] = FALSE THEN 404 ELSE 200)

\* the response is sent; the table stays
HttpRespond ==
  /\ http_request # NoHttpRequest
  /\ http_request' = NoHttpRequest
  /\ http_status' = 0
  /\ service_pc' = "idle"
  /\ service_call' = NoCall
  /\ service_out' = None
  /\ UNCHANGED <<productos, core_vars, request_vars, limiter_vars>>

NextAccess ==
  \/ get_producto_by_id
  \/ create_producto
  \/ update_producto
  \/ partial_update_producto
  \/ delete_producto
  \/ HttpRespond

SpecAccess == Init /\ [][NextAccess]_vars

-----------------------------------------------------------------------------
(* security/middleware.py: RateLimitMiddleware *)

\* request_counts is a dict: the function from the client_ips that are its
\* keys to the records [count, timestamp]

\* the dict comprehension: the records younger than 60 seconds stay
cleaned(counts, current_time) ==
  [ip \in { k \in DOMAIN counts : current_time - counts[k].timestamp < 60 } |-> counts[ip]]

created_at_each_request(counts, client_ip, current_time) ==
  [ip \in DOMAIN counts \cup {client_ip} |->
     IF ip # client_ip THEN counts[ip]
     ELSE IF ip \in DOMAIN counts
       THEN [count |-> counts[ip].count, timestamp |-> current_time]
     ELSE [count |-> 0, timestamp |-> current_time]]

\* if client_ip not in self.request_counts: a record with count 0
created(counts, client_ip, current_time) ==
  IF client_ip \in DOMAIN counts THEN counts
  ELSE [ip \in DOMAIN counts \cup {client_ip} |->
          IF ip = client_ip THEN [count |-> 0, timestamp |-> current_time]
          ELSE counts[ip]]

\* self.request_counts[client_ip]["count"] += 1
counted(counts, client_ip) == [counts EXCEPT ![client_ip].count = @ + 1]

limit_exceeded_by_two(count, limit) == count > limit + 1

\* self.request_counts[client_ip]["count"] > self.requests_per_minute
limit_exceeded(count, limit) == count > limit

\* dispatch(request, call_next) for a request of client_ip at current_time:
\* the dict it leaves, and 429 or the 200 of the response of call_next
dispatch(counts, limit, client_ip, current_time) ==
  LET after == counted(created(cleaned(counts, current_time), client_ip, current_time),
                       client_ip)
  IN [request_counts |-> after,
      status_code |-> IF limit_exceeded(after[client_ip].count, limit) THEN 429 ELSE 200]

\* a request of client_ip arrives; dispatch runs to its return or to its
\* await of call_next without leaving the event loop
DispatchOf(client_ip) ==
  /\ IF client_ip \in DOMAIN cleaned(request_counts, clock)
     THEN request_counts[client_ip].count < MaxCount
     ELSE TRUE
  /\ LET d == dispatch(request_counts, requests_per_minute, client_ip, clock)
         under == IF client_ip \in DOMAIN cleaned(request_counts, clock)
                  THEN forwarded[client_ip] ELSE 0
     IN /\ request_counts' = d.request_counts
        /\ dispatched' = [client_ip |-> client_ip, status_code |-> d.status_code]
        /\ forwarded' = [forwarded EXCEPT ![client_ip] =
                           IF d.status_code = 429 THEN under ELSE under + 1]
  /\ UNCHANGED <<requests_per_minute, clock, core_vars, request_vars, product_vars,
                 access_vars>>

Dispatch == \E client_ip \in ClientIps : DispatchOf(client_ip)

\* time passes: time.time() returns 20 or 30 seconds more
Tick ==
  /\ \E seconds \in {20, 30} :
       /\ clock + seconds <= MaxTime
       /\ clock' = clock + seconds
  /\ UNCHANGED <<requests_per_minute, request_counts, dispatched, forwarded, core_vars,
                 request_vars, product_vars, access_vars>>

\* RateLimitMiddleware(app, requests_per_minute) for a limit of 1 or more
InitRateLimit == \E n \in 1..MaxRequestsPerMinute : Constructed(n)

NextRateLimit ==
  \/ Dispatch
  \/ Tick

SpecRateLimit == InitRateLimit /\ [][NextRateLimit]_vars

\* time passes while the clock can go on, and every client sends a next
\* request while it can
SpecRateLimitFair ==
  /\ SpecRateLimit
  /\ WF_vars(Tick)
  /\ \A client_ip \in ClientIps : WF_vars(DispatchOf(client_ip))

-----------------------------------------------------------------------------
(* Vocabulary of the claims *)

Called(name) == pc = "returned" /\ op = name

Accepted == [ok |-> TRUE, error |-> None]

Rejected(msg) == [ok |-> FALSE, error |-> Some(msg)]

ComboRejected(msg) == [ok |-> FALSE, error |-> Some(msg), filters |-> None]

ComboAccepted(sel) == [ok |-> TRUE, error |-> None, filters |-> Some(sel)]

Max(S) == CHOOSE m \in S : \A n \in S : n <= m

Min(S) == CHOOSE m \in S : \A n \in S : m <= n

\* the four dimensions and the vocabulary of each, read off the enumerations
FourDimensions == {s_tipo_vehiculo, s_tipo_aceite, s_tipo_combustible, s_tipo_filtro}

Members(enum_class) == { enum_class[i] : i \in DOMAIN enum_class }

VocabularyOf(d) ==
  CASE d = s_tipo_vehiculo -> Members(TipoVehiculo)
    [] d = s_tipo_aceite -> Members(TipoAceite)
    [] d = s_tipo_combustible -> Members(TipoCombustible)
    [] d = s_tipo_filtro -> Members(TipoFiltro)

\* the sanitized (key, value) of every entry of the dict of the state
Sanitized ==
  [i \in 1..Len(filters) |->
     << _sanitize_input(filters[i][1]), _sanitize_input(filters[i][2]) >>]

\* the entries of san that survive sanitization
Surviving(san) ==
  { i \in DOMAIN san : san[i][1] # << >> /\ san[i][2] # << >> }

\* every surviving entry names a dimension and a token of its vocabulary
IndividuallyValid(san) ==
  \A i \in Surviving(san) :
    /\ san[i][1] \in FourDimensions
    /\ san[i][2] \in VocabularyOf(san[i][1])

\* the sanitized selection as a dict: dimension d maps to the value of the
\* last surviving entry whose sanitized key is d, and is absent without one
SelectionOf(san) ==
  LET at(d) == { i \in Surviving(san) : san[i][1] = d }
  IN [d \in { k \in FourDimensions : at(k) # {} } |-> san[Max(at(d))][2]]

\* the selection of the call of the state
Selection == SelectionOf(Sanitized)

\* the four compatibility rules, stated on a selection with the members of
\* the enumerations
Rule1Holds(sel) ==
  /\ Get(sel, s_tipo_aceite) = Some(TipoAceite[1])
  /\ Get(sel, s_tipo_combustible) = Some(TipoCombustible[2])
  /\ \E v \in {TipoVehiculo[3], TipoVehiculo[4]} :
       Get(sel, s_tipo_vehiculo) = Some(v)

Rule2Holds(sel) ==
  /\ Get(sel, s_tipo_filtro) = Some(TipoFiltro[5])
  /\ s_tipo_vehiculo \in DOMAIN sel
  /\ sel[s_tipo_vehiculo] \notin {TipoVehiculo[1], TipoVehiculo[4]}

Rule3Holds(sel) ==
  /\ Get(sel, s_tipo_combustible) = Some(TipoCombustible[3])
  /\ Get(sel, s_tipo_filtro) = Some(TipoFiltro[3])

Rule4Holds(sel) ==
  /\ Get(sel, s_tipo_vehiculo) = Some(TipoVehiculo[2])
  /\ \E v \in {TipoFiltro[4], TipoFiltro[5]} : Get(sel, s_tipo_filtro) = Some(v)

SomeRuleHolds(sel) ==
  Rule1Holds(sel) \/ Rule2Holds(sel) \/ Rule3Holds(sel) \/ Rule4Holds(sel)

\* the call of the state is validate_filter_combo on individually valid tokens
ValidCombo == Called("validate_filter_combo") /\ IndividuallyValid(Sanitized)

\* the orders the rule list can be written in
RuleOrders ==
  { o \in [1..4 -> 1..4] : \A i, j \in 1..4 : i # j => o[i] # o[j] }

-----
(* C1 *)

\* C1: for each of the four dimensions D and each token T of D's enumeration,
\* validate_filter_value(D, T) returns (True, None).
C1_VocabularyTokensValidate ==
  ( /\ Called("validate_filter_value")
    /\ filter_type.py = "str" /\ filter_type.v \in FourDimensions
    /\ value.py = "str"
    /\ value.v \in VocabularyOf(filter_type.v) )
  => result = Accepted

\* validate_filter_value("tipo_aceite", "semi-sintetico") has returned success
C1_Witness ==
  /\ Called("validate_filter_value")
  /\ filter_type = Str(s_tipo_aceite)
  /\ value = Str(TipoAceite[3])
  /\ result = Accepted

-----------------------------------------------------------------------------
(* C2 *)

\* C2 as stated: for every recognized dimension D and every input token T
\* that is not a member of D's vocabulary, validate_filter_value(D, T) fails
\* with the value-not-in-vocabulary reason.
C2_Original ==
  ( /\ Called("validate_filter_value")
    /\ filter_type.py = "str" /\ filter_type.v \in FourDimensions
    /\ value.py = "str"
    /\ value.v \notin VocabularyOf(filter_type.v) )
  => /\ ~result.ok
     /\ result.error # None
     /\ result.error[1].text = MsgBadValue(<< >>, << >>).text

\* C2 amended: for every recognized dimension D and every input T whose
\* sanitized form is non-empty and not a member of D's vocabulary,
\* validate_filter_value(D, T) fails with the value-not-in-vocabulary
\* reason, naming the sanitized value and D.
C2_NonMemberRejected ==
  ( /\ Called("validate_filter_value")
    /\ _sanitize_input(filter_type) \in FourDimensions
    /\ _sanitize_input(value) # << >>
    /\ _sanitize_input(value)
         \notin VocabularyOf(_sanitize_input(filter_type)) )
  => result = Rejected(MsgBadValue(_sanitize_input(filter_type),
                                   _sanitize_input(value)))

\* validate_filter_value("tipo_aceite", "aceite") has failed: "aceite" is a
\* token of tipo_filtro only
C2_Witness ==
  /\ Called("validate_filter_value")
  /\ filter_type = Str(s_tipo_aceite)
  /\ value = Str(TipoFiltro[2])
  /\ result = Rejected(MsgBadValue(s_tipo_aceite, TipoFiltro[2]))

-----------------------------------------------------------------------------------------------------------------------------------------------------
(* C3 *)

\* C3: validate_filter_combo rejects a selection of individually valid tokens
\* with the incompatible-combination reason exactly when one of the four
\* rules holds on the sanitized selection (an absent dimension is absent, not
\* a wildcard) and accepts it, returning the selection, otherwise; the rule
\* check gives the same answer with the rule list in any order.
C3_RejectedIffSomeRuleHolds ==
  ValidCombo
  => LET sel == Selection
         answer == _check_compatibility(sel)
     IN /\ IF SomeRuleHolds(sel)
           THEN result = ComboRejected(MsgIncompatible)
           ELSE result = ComboAccepted(sel)
        /\ \A o \in RuleOrders : check_rules(o, 1, sel) = answer

\* a selection without a vehicle on which only the third rule holds has been
\* rejected
C3_Witness ==
  /\ ValidCombo
  /\ Rule3Holds(Selection)
  /\ ~Rule1Holds(Selection) /\ ~Rule2Holds(Selection) /\ ~Rule4Holds(Selection)
  /\ s_tipo_vehiculo \notin DOMAIN Selection
  /\ result = ComboRejected(MsgIncompatible)

-----------------------------------------------------------------------------
(* C4 *)

\* C4: rule 1: a selection with tipo_aceite=sintetico, tipo_combustible=diesel
\* and tipo_vehiculo camion or bus, with or without a tipo_filtro, is rejected
\* as incompatible; with the vehicle absent or any other vehicle the same oil
\* and fuel are not rejected unless another rule holds.
C4_Rule1 ==
  ValidCombo
  => LET sel == Selection
     IN ( /\ Get(sel, s_tipo_aceite) = Some(s_sintetico)
          /\ Get(sel, s_tipo_combustible) = Some(s_diesel) )
        => IF Get(sel, s_tipo_vehiculo) \in {Some(s_camion), Some(s_bus)}
           THEN result = ComboRejected(MsgIncompatible)
           ELSE \/ Rule2Holds(sel) \/ Rule3Holds(sel) \/ Rule4Holds(sel)
                \/ result = ComboAccepted(sel)

\* {camion, sintetico, diesel, aire}, on which only rule 1 holds, has been
\* rejected
C4_Witness ==
  /\ ValidCombo
  /\ Selection =
       [d \in FourDimensions |->
          IF d = s_tipo_vehiculo THEN s_camion
          ELSE IF d = s_tipo_aceite THEN s_sintetico
          ELSE IF d = s_tipo_combustible THEN s_diesel
          ELSE s_aire]
  /\ result = ComboRejected(MsgIncompatible)

-----------------------------------------------------------------------------
(* C5 *)

-----------------------------------------------------------------------------
(* C6 *)

\* C6: rule 3: every selection with tipo_combustible=electrico and
\* tipo_filtro=combustible is rejected as incompatible, whatever the vehicle
\* and the oil are, present or absent.
C6_Rule3 ==
  ValidCombo
  => LET sel == Selection
     IN ( /\ Get(sel, s_tipo_combustible) = Some(s_electrico)
          /\ Get(sel, s_tipo_filtro) = Some(s_combustible) )
        => result = ComboRejected(MsgIncompatible)

\* {tipo_combustible: electrico, tipo_filtro: combustible} alone has been
\* rejected
C6_Witness ==
  /\ ValidCombo
  /\ DOMAIN Selection = {s_tipo_combustible, s_tipo_filtro}
  /\ Selection[s_tipo_combustible] = s_electrico
  /\ Selection[s_tipo_filtro] = s_combustible
  /\ result = ComboRejected(MsgIncompatible)

-----------------------------------------------------------------------------
(* C7 *)

\* C7: rule 4: every selection with tipo_vehiculo=moto and tipo_filtro polen
\* or habitaculo is rejected as incompatible.
C7_Rule4 ==
  ValidCombo
  => LET sel == Selection
     IN ( /\ Get(sel, s_tipo_vehiculo) = Some(s_moto)
          /\ Get(sel, s_tipo_filtro) \in {Some(s_polen), Some(s_habitaculo)} )
        => result = ComboRejected(MsgIncompatible)

\* {tipo_vehiculo: " Mo'TO ", tipo_filtro: "polen"} has been rejected
C7_Witness ==
  /\ Called("validate_filter_combo")
  /\ filters = << << Str(s_tipo_vehiculo), Str(<<32, 77, 111, 39, 84, 79, 32>>) >>,
                  << Str(s_tipo_filtro), Str(s_polen) >> >>
  /\ result = ComboRejected(MsgIncompatible)

-----------------------------------------------------------------------------
(* C8 *)

\* C8: the sanitizer is idempotent: sanitizing what _sanitize_input returned
\* returns it unchanged.
C8_SanitizeIdempotent ==
  Called("_sanitize_input") => _sanitize_input(Str(result)) = result

\* " Au'TO; " has been sanitized to "auto"
C8_Witness ==
  /\ Called("_sanitize_input")
  /\ value = Str(<<32, 65, 117, 39, 84, 79, 59, 32>>)
  /\ result = s_auto

-----------------------------------------------------------------------------
(* C9 *)

\* C9: for every input, str or not, _sanitize_input returns the empty string
\* or a non-empty string of characters a-z, 0-9, '-' and '_' only; a value
\* that keeps a disallowed character after the removals yields "".
C9_SanitizeOutputAllowed ==
  Called("_sanitize_input")
  => /\ \A i \in 1..Len(result) :
          result[i] \in (97..122) \cup (48..57) \cup {45, 95}
     /\ value.py # "str" => result = << >>

\* "a a", which keeps its inner blank, has been sanitized to ""
C9_Witness ==
  /\ Called("_sanitize_input")
  /\ value = Str(<<97, 32, 97>>)
  /\ result = << >>

-----------------------------------------------------------------------------
(* C10 *)

\* the characters of s from its first to its last non-whitespace character
RefTrim(s) ==
  LET ink == { i \in 1..Len(s) : s[i] \notin Whitespace }
  IN IF ink = {} THEN << >> ELSE SubSeq(s, Min(ink), Max(ink))

\* s in lower case without its control and injection characters, from the
\* last character to the first
RECURSIVE RefClean(_)
RefClean(s) ==
  IF s = << >> THEN << >>
  ELSE LET c == lower_char(s[Len(s)])
           kept == { i \in 1..Len(c) :
                       /\ ~(c[i] <= 31 \/ c[i] = 127)
                       /\ c[i] \notin {39, 34, 92, 59, 60, 62} }
       IN RefClean(SubSeq(s, 1, Len(s) - 1))
            \o (IF kept = {} THEN << >> ELSE SubSeq(c, Min(kept), Max(kept)))

\* the reference result for the str s
RefSanitize(s) ==
  LET r == RefClean(RefTrim(s))
  IN IF r # << >> /\ \A i \in 1..Len(r) : r[i] \in AllowedChars
     THEN r ELSE << >>

\* C10: for every str x, _sanitize_input(x) is the reference result: trim,
\* lower-case, delete control characters, delete ' " \ ; < >, and return the
\* rest when it is non-empty and of [a-z0-9-_] only, else ""; a token written
\* like " Au'To " validates as the token does.
C10_SanitizeMatchesReference ==
  /\ (Called("_sanitize_input") /\ value.py = "str")
       => result = RefSanitize(value.v)
  /\ ( /\ Called("validate_filter_value")
       /\ filter_type.py = "str" /\ filter_type.v \in FourDimensions
       /\ value.py = "str"
       /\ RefSanitize(value.v) \in VocabularyOf(filter_type.v) )
     => result = Accepted

\* validate_filter_value("tipo_vehiculo", " Au'TO; ") has succeeded
C10_Witness ==
  /\ Called("validate_filter_value")
  /\ filter_type = Str(s_tipo_vehiculo)
  /\ value = Str(<<32, 65, 117, 39, 84, 79, 59, 32>>)
  /\ result = Accepted

-----------------------------------------------------------------------------
(* C11 *)

\* C11: validate_filter_combo on an empty mapping succeeds and returns an
\* empty selection: (True, None, {}).
C11_EmptyMappingSucceeds ==
  (Called("validate_filter_combo") /\ filters = << >>)
  => result = [ok |-> TRUE, error |-> None, filters |-> Some(<< >>)]

\* validate_filter_combo({}) has returned
C11_Witness ==
  /\ Called("validate_filter_combo")
  /\ filters = << >>
  /\ result.ok

-----------------------------------------------------------------------------
(* C12 *)

\* C12: whenever validate_filter_combo succeeds, the returned selection has
\* at most 4 entries, every key is one of the four dimensions and every value
\* is a member of that key's vocabulary, also when raw keys collide after
\* sanitization.
C12_SelectionInvariant ==
  (Called("validate_filter_combo") /\ result.ok)
  => /\ result.filters # None
     /\ LET sel == result.filters[1]
        IN /\ Cardinality(DOMAIN sel) <= 4
           /\ \A k \in DOMAIN sel :
                k \in FourDimensions /\ sel[k] \in VocabularyOf(k)

\* {"tipo_vehiculo": "auto", " TIPO_VEHICULO ": " Mo'TO "}, whose keys
\* collide, has been accepted with the one entry tipo_vehiculo: moto
C12_Witness ==
  /\ Called("validate_filter_combo")
  /\ Len(filters) = 2
  /\ filters[1] = << Str(s_tipo_vehiculo), Str(s_auto) >>
  /\ filters[2][1] = Str(<<32>> \o upper(s_tipo_vehiculo) \o <<32>>)
  /\ result = ComboAccepted([k \in {s_tipo_vehiculo} |-> s_moto])

-----------------------------------------------------------------------------
(* C13 *)

\* the surviving entries of san that fail value validation
Failing(san) ==
  { i \in Surviving(san) :
      ~(san[i][1] \in FourDimensions /\ san[i][2] \in VocabularyOf(san[i][1])) }

\* the rejection reason of validate_filter_value for the failing entry p
ReasonOf(p) ==
  IF p[1] \notin FourDimensions THEN MsgUnknownType(p[1])
  ELSE MsgBadValue(p[1], p[2])

\* C13: validate_filter_combo is all-or-nothing: when a surviving pair fails
\* value validation the call fails with the reason of the first such pair in
\* iteration order (prefixed "Filtro invalido: ") and returns None for the
\* selection; every failed call, an incompatibility rejection included,
\* returns None for the selection.
C13_AllOrNothing ==
  Called("validate_filter_combo")
  => LET san == Sanitized
         bad == Failing(san)
     IN /\ bad # {}
           => result = ComboRejected(MsgInvalidInCombo(ReasonOf(san[Min(bad)])))
        /\ bad = {} => (result.ok \/ result = ComboRejected(MsgIncompatible))
        /\ ~result.ok => result.filters = None

\* {"tipo_vehiculo": "auto", "tipo_filtro": "x"} has been rejected for its
\* second entry, without a selection
C13_Witness ==
  /\ Called("validate_filter_combo")
  /\ filters = << << Str(s_tipo_vehiculo), Str(s_auto) >>,
                  << Str(s_tipo_filtro), Str(s_x) >> >>
  /\ result = ComboRejected(MsgInvalidInCombo(MsgBadValue(s_tipo_filtro, s_x)))

-----------------------------------------------------------------------------
(* C14 *)

\* the dict d without the entries that are empty after sanitization
WithoutDropped(d) ==
  LET keep(p) == _sanitize_input(p[1]) # << >> /\ _sanitize_input(p[2]) # << >>
  IN SelectSeq(d, keep)

\* C14: in validate_filter_combo an entry whose key or value is empty after
\* sanitization is dropped and is no error: the result is that of the call
\* without the entry, while validate_filter_value on the entry fails with the
\* empty-input reason.
C14_EmptyEntriesDropped ==
  /\ Called("validate_filter_combo")
       => /\ result = validate_filter_combo(WithoutDropped(filters))
          /\ \A i \in (1..Len(filters)) \ Surviving(Sanitized) :
               validate_filter_value(filters[i][1], filters[i][2])
                 = Rejected(MsgEmpty)
  /\ ( /\ Called("validate_filter_value")
       /\ (_sanitize_input(filter_type) = << >> \/ _sanitize_input(value) = << >>) )
     => result = Rejected(MsgEmpty)

\* {None: "auto", "tipo_filtro": "polen"} has been accepted as
\* {"tipo_filtro": "polen"}
C14_Witness ==
  /\ Called("validate_filter_combo")
  /\ filters = << << [py |-> "NoneType", v |-> << >>], Str(s_auto) >>,
                  << Str(s_tipo_filtro), Str(s_polen) >> >>
  /\ result = ComboAccepted([k \in {s_tipo_filtro} |-> s_polen])

-----------------------------------------------------------------------------
(* C15 *)

\* C15: validate_filter_value checks in a fixed order: a dimension or value
\* that is empty after sanitization gives the empty-input reason, also when
\* the dimension is unknown; otherwise a dimension outside the four keys gives
\* the unknown-dimension reason whatever the value is; only then is the value
\* tested against the vocabulary.
C15_CheckOrder ==
  Called("validate_filter_value")
  => LET ft == _sanitize_input(filter_type)
         val == _sanitize_input(value)
     IN IF ft = << >> \/ val = << >> THEN result = Rejected(MsgEmpty)
        ELSE IF ft \notin FourDimensions
          THEN result = Rejected(MsgUnknownType(ft))
        ELSE IF val \in VocabularyOf(ft) THEN result = Accepted
        ELSE result = Rejected(MsgBadValue(ft, val))

\* validate_filter_value("tipo", "a a"), an unknown dimension with a value
\* that sanitizes to "", has failed with the empty-input reason
C15_Witness ==
  /\ Called("validate_filter_value")
  /\ filter_type = Str(s_tipo)
  /\ value = Str(<<97, 32, 97>>)
  /\ result = Rejected(MsgEmpty)

-----------------------------------------------------------------------------
(* C16 *)

\* C16: no exception leaves validate_filter_value or validate_filter_combo,
\* whatever the argument (keys or values that are not str, None, arguments
\* that are no mapping): every outcome is a result tuple, and a fault inside
\* validate_filter_combo comes back as the generic internal-error message,
\* which carries no text of the exception.
C16_NoExceptionEscapes ==
  /\ Called("validate_filter_value")
       => /\ DOMAIN result = {"ok", "error"}
          /\ result.ok <=> result.error = None
  /\ Called("validate_filter_combo")
       => /\ DOMAIN result = {"ok", "error", "filters"}
          /\ result.ok <=> result.error = None
  /\ Called("validate_filter_combo_non_mapping")
       => result = IF Falsy(value) THEN ComboAccepted(<< >>)
                   ELSE ComboRejected(MsgInternalCombo)

\* validate_filter_combo([5]) has returned the internal-error result
C16_Witness ==
  /\ Called("validate_filter_combo_non_mapping")
  /\ value = [py |-> "list", v |-> <<5>>]
  /\ result = ComboRejected(MsgInternalCombo)

-----------------------------------------------------------------------------
(* C17 *)

\* selections on which exactly rule 1, rule 2, rule 3, rule 4, and both rule
\* 2 and rule 4 hold
RuleRepresentatives ==
  << [k \in {s_tipo_aceite, s_tipo_combustible, s_tipo_vehiculo} |->
        IF k = s_tipo_aceite THEN s_sintetico
        ELSE IF k = s_tipo_combustible THEN s_diesel ELSE s_camion],
     [k \in {s_tipo_filtro, s_tipo_vehiculo} |->
        IF k = s_tipo_filtro THEN s_habitaculo ELSE s_camion],
     [k \in {s_tipo_combustible, s_tipo_filtro} |->
        IF k = s_tipo_combustible THEN s_electrico ELSE s_combustible],
     [k \in {s_tipo_vehiculo, s_tipo_filtro} |->
        IF k = s_tipo_vehiculo THEN s_moto ELSE s_polen],
     [k \in {s_tipo_vehiculo, s_tipo_filtro} |->
        IF k = s_tipo_vehiculo THEN s_moto ELSE s_habitaculo] >>

\* C17: the incompatibility rejection does not tell which rule fired: the
\* reason a rejected selection receives is the one every other rejected
\* selection receives, whichever rule or rules hold on either.
C17_ReasonIndependentOfRule ==
  ValidCombo
  => LET sel == Selection
         answer == _check_compatibility(sel)
     IN answer # None
        => /\ result.error = answer
           /\ \A j \in DOMAIN RuleRepresentatives :
                _check_compatibility(RuleRepresentatives[j]) = answer
           /\ \A n \in 1..4 :
                rules(n, sel) => check_rules(<< n >>, 1, sel) = answer

\* a selection on which rules 2 and 4 both hold has been rejected
C17_Witness ==
  /\ ValidCombo
  /\ Rule2Holds(Selection) /\ Rule4Holds(Selection)
  /\ result = ComboRejected(MsgIncompatible)

-----------------------------------------------------------------------------
(* C18 *)

\* C18: get_recommended_filters returns a non-empty mapping exactly when its
\* argument sanitizes to auto, moto, camion or bus (for camion: oils mineral
\* and semi-sintetico, fuels diesel and gas, filter types with hidraulico),
\* and the empty mapping for every other argument: unknown tokens, arguments
\* that sanitize to "", and values that are not str.
C18_Recommendations ==
  Called("get_recommended_filters")
  => LET v == _sanitize_input(value)
     IN /\ DOMAIN result # {} <=> v \in {s_auto, s_moto, s_camion, s_bus}
        /\ value.py # "str" => DOMAIN result = {}
        /\ v = s_camion
           => /\ Members(result[s_tipo_aceite]) = {s_mineral, s_semi_sintetico}
              /\ Members(result[s_tipo_combustible]) = {s_diesel, s_gas}
              /\ s_hidraulico \in Members(result[s_tipo_filtro])

\* get_recommended_filters("BUS") has returned the entry of bus, and
\* get_recommended_filters("maquinaria") would return {}
C18_Witness ==
  /\ Called("get_recommended_filters")
  /\ value = Str(upper(s_bus))
  /\ DOMAIN result = {s_tipo_aceite, s_tipo_combustible, s_tipo_filtro}
  /\ result[s_tipo_combustible] = << s_diesel >>

-----------------------------------------------------------------------------
(* C19 *)

\* C19: get_available_filters returns the same four dimensions with the same
\* tokens in the same order, that of the enumerations' declarations, on every
\* call: after any other operations of the core and whatever a caller did to
\* a mapping it was given before.
C19_AvailableFiltersStable ==
  Called("get_available_filters")
  => result =
       << << s_tipo_vehiculo,
             << s_auto, s_moto, s_camion, s_bus, s_maquinaria, s_agricola >> >>,
          << s_tipo_aceite,
             << s_sintetico, s_mineral, s_semi_sintetico, s_transmision,
                s_hidraulico >> >>,
          << s_tipo_combustible,
             << s_gasolina, s_diesel, s_electrico, s_hibrido, s_gas,
                s_biocombustible >> >>,
          << s_tipo_filtro,
             << s_aire, s_aceite, s_combustible, s_polen, s_habitaculo,
                s_hidraulico, s_transmision, s_agua >> >> >>

\* get_available_filters has returned to a caller that deleted an entry of
\* the mapping it was given before and changed a list of it
C19_Witness ==
  /\ Called("get_available_filters")
  /\ mutations = 2
  /\ held # None
  /\ Len(held[1]) = 3
  /\ \E j \in 1..3 : \E e \in {TipoVehiculo, TipoAceite, TipoCombustible, TipoFiltro} :
       held[1][j][2] = e \o << s_x >>
  /\ Len(result) = 4

-----------------------------------------------------------------------------
(* C20 *)

\* C20: the validators are stateless: under every interleaving of the calls
\* of the threads, each call returns what the same call returns when it runs
\* alone, and validate_filter_combo leaves the dict it was given unchanged.
C20_Stateless ==
  \A t \in Threads :
    LET c == calls[t]
    IN /\ c.kind = "combo" => c.items = c.given
       /\ (c.pc = "done" /\ c.kind = "value")
            => c.result = validate_filter_value(c.filter_type, c.value)
       /\ (c.pc = "done" /\ c.kind = "combo")
            => c.result = validate_filter_combo_call(Dict(c.given))

\* a call of validate_filter_combo has returned an accepted selection while
\* the call of another thread, on another dict, is inside its loop
C20_Witness ==
  \E t, u \in Threads :
    /\ calls[t].pc = "done" /\ calls[t].kind = "combo"
    /\ calls[t].result.ok /\ calls[t].given # << >>
    /\ calls[u].pc = "loop" /\ calls[u].i = 2
    /\ calls[u].given # calls[t].given

-----------------------------------------------------------------------------
(* C23 *)

\* C23: audit_filter_usage never raises, whatever the selection and the
\* origin are (non-str values, a non-str origin, no dict at all); the record
\* it logs holds exactly the pairs whose sanitized key and value are both
\* non-empty, the key cut to 20 and the value to 50 characters; and the
\* selection it was given is unchanged.
C23_AuditNeverRaises ==
  /\ Called("audit_filter_usage_non_mapping")
       => result.exc = None /\ result.filters = filter_type
  /\ Called("audit_filter_usage")
       => /\ result.exc = None
          /\ result.filters = Dict(filters)
          /\ \A r \in { result.logged[j] : j \in DOMAIN result.logged } :
               r.level = "info" =>
                 LET san == Sanitized
                     kept == Surviving(san)
                     cut(t, n) == IF Len(t) <= n THEN t ELSE SubSeq(t, 1, n)
                 IN /\ \A k \in DOMAIN r.filters :
                         /\ Len(k) <= 20 /\ Len(r.filters[k]) <= 50
                         /\ \E i \in kept : /\ k = cut(san[i][1], 20)
                                            /\ r.filters[k] = cut(san[i][2], 50)
                    /\ \A i \in kept : cut(san[i][1], 20) \in DOMAIN r.filters

\* a call with a key of more than 20 characters, a value of more than 50, a
\* value that is no str and an origin that is no str has returned
C23_Witness ==
  /\ Called("audit_filter_usage")
  /\ value.py = "int"
  /\ \E i, j \in DOMAIN filters :
       /\ filters[i][1].py = "str" /\ Len(filters[i][1].v) > 20
       /\ filters[i][2].py = "str" /\ Len(filters[i][2].v) > 50
       /\ filters[j][2].py = "int"
  /\ result.exc = None

-----------------------------------------------------------------------------
(* C21 *)

\* the parameters that were sent, as the items of the dict the GraphQL
\* resolver would validate
SentItems ==
  LET at(i) == request.filtros[allowed_fields[i]]
      sent == { i \in DOMAIN allowed_fields : at(i).py # "NoneType" }
      RECURSIVE from(_)
      from(i) == IF i > Len(allowed_fields) THEN << >>
                 ELSE (IF i \in sent THEN << << Str(allowed_fields[i]), at(i) >> >>
                       ELSE << >>) \o from(i + 1)
  IN from(1)

\* C21: the REST binder rejects (HTTP 400) exactly the selections that
\* validate_filter_combo rejects, and otherwise yields the same sanitized
\* filter map.
C21_RestMatchesValidator ==
  (request.endpoint = "rest" /\ validated # None) =>
    LET b == validated[1]
        v == validate_filter_combo_call(Dict(SentItems))
    IN /\ (b.exc # None) <=> ~v.ok
       /\ v.ok =>
            LET m == b.ret[1]
            IN [f \in { k \in DOMAIN m : m[k].py = "str" } |-> m[f].v] = v.filters[1]

-----------------------------------------------------------------------------
(* C22 *)

\* C22: the query layer accepts every selection the validator produced and
\* filters the active products by each of its entries, ANDed.
C22_QueryAcceptsValidated ==
  (request.endpoint = "graphql" /\ handler = "done"
     /\ validated # None /\ validated[1].ok) =>
    LET sel == validated[1].filters[1]
        r == response[1]
    IN /\ r.exc \notin { Some("ValueError") }
       /\ { r.where[i] : i \in DOMAIN r.where } = { << f, sel[f] >> : f \in DOMAIN sel }

-----------------------------------------------------------------------------
(* C24 *)

\* C24: in the productsByVehicleFilter flow the calls are made in the order
\* validate, audit, query; the audit hook and filtrar_por_vehiculo are called
\* only after validate_and_sanitize_filters succeeded and only with its
\* sanitized selection; after a rejection neither is called for the request.
C24_ValidateAuditQuery ==
  request.endpoint = "graphql" =>
    LET order == << "validate_and_sanitize_filters", "audit_filter_usage",
                    "filtrar_por_vehiculo" >>
    IN /\ Len(log) <= 3
       /\ \A i \in DOMAIN log : log[i].hook = order[i]
       /\ validated = None => log = << >>
       /\ (validated # None /\ ~validated[1].ok) => Len(log) = 1
       /\ Len(log) >= 2 =>
            /\ validated # None /\ validated[1].ok
            /\ log[2].arg = validated[1].filters[1]
       /\ Len(log) = 3 =>
            LET sel == validated[1].filters[1]
            IN \A f \in DOMAIN log[3].arg :
                 log[3].arg[f] = IF f \in DOMAIN sel THEN Str(sel[f])
                                 ELSE [py |-> "NoneType", v |-> << >>]

\* a request whose two filters were accepted has been validated, audited and
\* handed to the query layer
C24_Witness ==
  /\ request.endpoint = "graphql"
  /\ handler = "done"
  /\ Len(log) = 3
  /\ validated[1].ok
  /\ Cardinality(DOMAIN validated[1].filters[1]) = 2

-----------------------------------------------------------------------------
(* C25 *)

\* C25: every list that get_recommended_filters returns holds only tokens of
\* the vocabulary of its dimension, and every selection made of a vehicle
\* type auto, moto, camion or bus and of none or one recommended token per
\* other dimension is accepted by validate_filter_combo.
C25_RecommendationsValidate ==
  /\ Called("get_recommended_filters")
       => \A d \in DOMAIN result :
            /\ d \in FourDimensions
            /\ Members(result[d]) \subseteq VocabularyOf(d)
  /\ Called("validate_recommended")
       => /\ value.v \in {s_auto, s_moto, s_camion, s_bus}
          /\ result = ComboAccepted(Selection)
          /\ ~SomeRuleHolds(Selection)

\* a selection of camion with a recommended oil, fuel and filter type has
\* been validated
C25_Witness ==
  /\ Called("validate_recommended")
  /\ value = Str(s_camion)
  /\ Len(filters) = 4
  /\ result.ok

-----------------------------------------------------------------------------
(* C26 *)

\* the active rows of the table that hold the barcode
ActiveHolders(table, codigo_barras) ==
  { i \in DOMAIN table : table[i].activo = 1 /\ table[i].codigo_barras = codigo_barras }

\* a call of the method returns in this step
Returns(methods) == service_pc' = "returned" /\ service_call'.method \in methods

\* the call ended with a ValueError and the table is as before
FailsHere == service_out' = Some(Raise("ValueError")) /\ productos' = productos

\* C26: after any sequence of create, update, partial_update and delete calls
\* no two active products have the same codigo_barras; create fails (with a
\* ValueError, the table unchanged) when an active product already holds the
\* barcode, and update fails when a different active product holds it.
C26_ActiveBarcodesUnique ==
  /\ [](\A i, j \in DOMAIN productos :
          (i # j /\ productos[i].activo = 1 /\ productos[j].activo = 1)
            => productos[i].codigo_barras # productos[j].codigo_barras)
  /\ [][(Returns({"create"})
           /\ ActiveHolders(productos,
                            _sanitize_string(service_call'.data.codigo_barras)) # {})
          => FailsHere]_vars
  /\ [][(Returns({"update", "partial_update"})
           /\ service_call'.producto_id \in DOMAIN productos
           /\ productos[service_call'.producto_id].activo = 1
           /\ service_call'.data.codigo_barras # None
           /\ service_call'.data.codigo_barras[1].py = "str"
           /\ ActiveHolders(productos,
                            _sanitize_string(service_call'.data.codigo_barras[1].v))
                \ {service_call'.producto_id} # {})
          => FailsHere]_vars

\* with two active products in the table, an update of the second one to the
\* barcode of the first one has failed
C26_Witness ==
  /\ service_pc = "returned"
  /\ service_call.method = "update"
  /\ service_call.producto_id = 2
  /\ Len(productos) = 2
  /\ productos[1].activo = 1 /\ productos[2].activo = 1
  /\ service_call.data.codigo_barras # None
  /\ service_call.data.codigo_barras[1].py = "str"
  /\ _sanitize_string(service_call.data.codigo_barras[1].v) = productos[1].codigo_barras
  /\ service_out = Some(Raise("ValueError"))

-----------------------------------------------------------------------------
(* C27 *)

\* C27: soft delete is permanent and hides the product: after delete(id)
\* returned True the row is inactive; an inactive row never changes again
\* (its activo flag stays 0); and on the id of an inactive row get_by_id,
\* update and partial_update return None and delete returns False.
C27_SoftDeletePermanent ==
  /\ []((service_pc = "returned" /\ service_call.method = "delete"
           /\ service_out = Some(Return_(TRUE)))
          => productos[service_call.producto_id].activo = 0)
  /\ [][\A i \in DOMAIN productos :
          productos[i].activo = 0 => productos'[i] = productos[i]]_vars
  /\ [][(/\ service_pc' = "returned"
         /\ service_call'.producto_id \in DOMAIN productos
         /\ productos[service_call'.producto_id].activo = 0)
          => /\ productos' = productos
             /\ service_call'.method \in {"get_by_id", "update", "partial_update"}
                  => service_out' = Some(Return_(None))
             /\ service_call'.method = "delete"
                  => service_out' = Some(Return_(FALSE))]_vars

\* an update with a new barcode and a new quantity for a deleted product has
\* returned None
C27_Witness ==
  /\ service_pc = "returned"
  /\ service_call.method = "update"
  /\ service_call.producto_id \in DOMAIN productos
  /\ productos[service_call.producto_id].activo = 0
  /\ service_call.data.codigo_barras = Some(Str(Repeat(66, 8)))
  /\ service_call.data.cantidad = Some(5)
  /\ service_out = Some(Return_(None))

-----------------------------------------------------------------------------
(* C28 *)

\* the token of the request the endpoint is answering
TokenOf(r) == r.credentials[1]

\* the request carries a token that is signed, names a user and has not expired
ValidToken(r) ==
  /\ r.credentials # None
  /\ TokenOf(r).signed
  /\ TokenOf(r).payload.sub \notin {None, Some("")}
  /\ TokenOf(r).payload.exp # None => TokenOf(r).payload.exp[1] >= r.utcnow

\* the role of the token: viewer when it has no role claim
RoleOf(r) ==
  IF TokenOf(r).payload.role = None THEN "viewer" ELSE TokenOf(r).payload.role[1]

\* C28: on the product endpoints a request without a valid token reaches
\* no service operation and is answered 401; create, update and
\* partial_update are reached only with a valid token of role admin or
\* manager; delete is reached only with a valid token of role admin; and
\* the table changes only in a request with a valid token of role admin
\* or manager, never with viewer, no role claim or an unknown role
C28_RoleBasedAccess ==
  /\ [](http_request # NoHttpRequest =>
          /\ ~ValidToken(http_request) => service_call = NoCall /\ http_status = 401
          /\ service_call.method \in {"create", "update", "partial_update"}
               => ValidToken(http_request) /\ RoleOf(http_request) \in {"admin", "manager"}
          /\ service_call.method = "delete"
               => ValidToken(http_request) /\ RoleOf(http_request) = "admin")
  /\ [][productos' # productos
          => /\ ValidToken(http_request')
             /\ RoleOf(http_request') \in {"admin", "manager"}
             /\ RoleOf(http_request') = "manager" => service_call'.method # "delete"]_vars

\* a manager has created a product, and the table holds it
C28_Witness ==
  /\ http_request.endpoint = "create_producto"
  /\ ValidToken(http_request)
  /\ RoleOf(http_request) = "manager"
  /\ service_call.method = "create"
  /\ http_status = 200
  /\ Len(productos) = 1

-----------------------------------------------------------------------------
(* C29 *)

\* the last request RateLimitMiddleware has handled came from ip
LastFrom(ip) == dispatched.client_ip = ip

\* C29: while a client has a record in request_counts, call_next has got at
\* most requests_per_minute of its requests under that record, whatever
\* the other clients sent; the request just handled was answered 429
\* exactly when the record counts more than requests_per_minute requests,
\* and then it was not forwarded: the forwarded ones stay at the limit
C29_AtMostLimitForwarded ==
  /\ \A ip \in DOMAIN request_counts : forwarded[ip] <= requests_per_minute
  /\ \A ip \in ClientIps :
       LastFrom(ip) =>
         /\ ip \in DOMAIN request_counts
         /\ dispatched.status_code = 429 <=> request_counts[ip].count > requests_per_minute
         /\ dispatched.status_code = 429 => forwarded[ip] = requests_per_minute
         /\ dispatched.status_code # 429 => forwarded[ip] = request_counts[ip].count

\* a client has been answered 429 in its window while the other client,
\* which also has a record, was forwarded
C29_Witness ==
  /\ dispatched = [client_ip |-> "10.0.0.1", status_code |-> 429]
  /\ request_counts["10.0.0.1"].count = requests_per_minute + 1
  /\ "10.0.0.2" \in DOMAIN request_counts
  /\ forwarded["10.0.0.2"] >= 1

-----------------------------------------------------------------------------
(* C30 *)

\* the record of ip counts more requests than the limit
Blocked(ip) ==
  /\ ip \in DOMAIN request_counts
  /\ request_counts[ip].count > requests_per_minute

\* the window of ip's record is over
WindowOver(ip) == ip \in DOMAIN request_counts /\ clock - request_counts[ip].timestamp >= 60

\* the step handles a request of ip
RequestOf(ip) == request_counts' # request_counts /\ dispatched'.client_ip = ip

\* ip's request has been forwarded as the first one of a new record
ServedAgain(ip) ==
  /\ dispatched = [client_ip |-> ip, status_code |-> 200]
  /\ ip \in DOMAIN request_counts
  /\ request_counts[ip].count = 1

====
